---- MODULE Spec2Model ----
(***************************************************************************)
(* A model of the GitHub ProjectV2 exporter and importer:                  *)
(*   - execute_graphql, the retrying transport client of both tools;       *)
(*   - _parse_task_item, the per-item normalizer of the exporter;          *)
(*   - get_project_tasks, the pagination loop of the exporter, and the     *)
(*     exporter's main, which writes the output file;                      *)
(*   - import_item, the per-record import of the importer, with the calls  *)
(*     it makes (get_user_id, create_draft_issue, get_issue_id,            *)
(*     add_existing_item, update_field_value);                             *)
(*   - the importer's main loop over the records of the CSV file.          *)
(*                                                                         *)
(* Python values are tagged records, so that None, a missing key, strings  *)
(* and numbers stay distinct: Absent is a key a dict does not have, PyNone *)
(* is None (a JSON null), Str(s) a string, PyInt(n) an integer.            *)
(*                                                                         *)
(* The source's non-ASCII literals are written in ASCII here: the field    *)
(* names by their pinyin ("zhuangtai" for U+72B6 U+6001, and so on, see    *)
(* the synonym lists below), the error messages by an English tag.         *)
(***************************************************************************)
EXTENDS Integers, Sequences, FiniteSets, TLC

VARIABLES
    \* ---- execute_graphql (one call) ----
    max_retries,   \* self.max_retries, api.max_retries of the configuration
    attempt,       \* the loop variable of `for attempt in range(max_retries)`
    pc,            \* position in execute_graphql: "loop", "sleep", "check", "done"
    events,        \* history: every requests.post and every time.sleep, in order
    response,      \* the local `response`, Unbound until a post returns
    outcome,       \* how the call ended: Running, a Return or a Raise
    \* ---- _parse_task_item (one call) ----
    item,          \* the argument `item`, a node of the project's items
    task,          \* the result: Pending, NoRecord (None), a TaskInfo or a ParseError
    \* ---- get_project_tasks (one run) ----
    board,         \* the pages of the project on the server
    cursor,        \* the local `cursor`
    all_tasks,     \* the local `all_tasks`
    field_map,     \* the local `field_map`, Unbound before the first page
    fetches,       \* history: the execute_graphql calls of the run, in order
    export_pc,     \* "loop", "done" (all_tasks returned) or "raised"
    export_error,  \* the exception that left get_project_tasks, if any
    \* ---- main of the exporter (one run) ----
    output,        \* args.output by its extension: ".json", ".csv", ".txt", or Absent
    output_file,   \* the file at args.output: Absent, or the ids of the tasks written
    exit_code,     \* PyNone while running, then the exit status of the process
    \* ---- import_item (one call) ----
    record,         \* the argument `item`, a ProjectItem
    project_fields, \* the argument `project_fields`, the board's `fields` object
    import_pc,      \* "route", "assignees", "get_issue", "attach", "field_map",
                    \* "fields", "done" or "raised"
    assignee_ids,   \* the local `assignee_ids` of create_draft_issue
    content_id,     \* the local `content_id`
    item_id,        \* the local `item_id`
    field_pos,      \* position of the loop over field_updates, 1..4
    calls,          \* history: the execute_graphql calls of import_item, in order
    import_result,  \* how import_item ended: Running, a Return or a Raise
    \* ---- main of the importer (one run) ----
    run_items,         \* the local `items`, the records read from the CSV file
    batch_size,        \* importer.batch_size, import.batch_size of the configuration
    continue_on_error, \* importer.continue_on_error
    run_i,             \* the loop variable `i`, 0 before the first record
    success_count,     \* the local `success_count`
    run_log,           \* history: per record, the attempt, how it ended, the pause
    run_pc,            \* "loop", "importing", "broken" (after break) or "end"
    report,            \* the counts of the closing message, Absent until then
    \* ---- main of either tool, up to its loop (one process) ----
    tool,          \* "exporter" or "importer"
    args,          \* the parsed command line: token, project, dry_run
    config,        \* the loaded configuration: {} without --config
    project_info,  \* importer: the local `project_info`, Unbound until fetched
    csv_file,      \* importer: the CSV file as read, Unbound until then
    start_pc,      \* "start", "client", "csv", "read", "export", "loop" or "exit"
    start_calls,   \* history: the queries sent before the loop, with their answers
    start_exit,    \* PyNone while running, then the exit status of the process
    \* ---- parse_csv_row (one call) ----
    csv_row,       \* the argument `row`, a dict of csv.DictReader
    csv_item,      \* how the call ended: Running, a Return of a ProjectItem or a Raise
    \* ---- export_to_csv (one call) ----
    sheet_tasks,   \* the argument `tasks`
    sheet          \* the file at output_file: Unbound before the call, Absent when
                   \* none is written, else its header line and its rows

transport_vars == <<max_retries, attempt, pc, events, response, outcome>>
parse_vars == <<item, task>>
main_vars == <<output, output_file, exit_code>>
export_vars ==
    <<board, cursor, all_tasks, field_map, fetches, export_pc, export_error, main_vars>>

import_vars ==
    <<record, project_fields, import_pc, assignee_ids, content_id, item_id, field_pos,
      calls, import_result>>

run_vars ==
    <<run_items, batch_size, continue_on_error, run_i, success_count, run_log, run_pc, report>>

start_vars ==
    <<tool, args, config, project_info, csv_file, start_pc, start_calls, start_exit>>

csv_vars == <<csv_row, csv_item>>

sheet_vars == <<sheet_tasks, sheet>>

vars ==
    <<transport_vars, parse_vars, export_vars, import_vars, run_vars, start_vars, csv_vars,
      sheet_vars>>

\* What each component leaves alone.
others == <<csv_vars, sheet_vars>>
outside_transport == <<parse_vars, export_vars, import_vars, run_vars, start_vars, others>>
outside_parse == <<transport_vars, export_vars, import_vars, run_vars, start_vars, others>>
outside_export == <<transport_vars, parse_vars, import_vars, run_vars, start_vars, others>>
outside_import == <<transport_vars, parse_vars, export_vars, run_vars, start_vars, others>>
outside_run == <<transport_vars, parse_vars, export_vars, start_vars, others>>
outside_start == <<transport_vars, parse_vars, export_vars, import_vars, others>>
outside_csv ==
    <<transport_vars, parse_vars, export_vars, import_vars, run_vars, start_vars, sheet_vars>>
outside_sheet ==
    <<transport_vars, parse_vars, export_vars, import_vars, run_vars, start_vars, csv_vars>>

----------------------------------------------------------------------------
(* Python values *)

Absent == [t |-> "absent"]
PyNone == [t |-> "None"]
Str(s) == [t |-> "str", v |-> s]
PyInt(n) == [t |-> "int", v |-> n]
List(items) == [t |-> "list", items |-> items]
EmptyDict == [t |-> "dict", id |-> "{}"]
DataDict(id) == [t |-> "dict", id |-> id]

----------------------------------------------------------------------------
(* execute_graphql *)

\* Largest configured max_retries explored.
MaxRetries == 3

\* The configured values of api.max_retries: the default 3, smaller ones, and
\* the values (0, negative) for which range(max_retries) is empty.
RetryConfigs == (0 - 1)..MaxRetries

\* str(e) of the requests.RequestException a post raises.
FaultMessages == {"ConnectionError", "Timeout"}

Unbound == [t |-> "unbound"]
NotJson == [t |-> "notjson"]
JsonBody(errors, data) == [t |-> "json", errors |-> errors, data |-> data]

\* The bodies a server answers with: not JSON at all, or a JSON object whose
\* `errors` key is missing, an empty list or a populated list, and whose `data`
\* key is missing, null or an object.
Bodies ==
    {NotJson} \cup
    { JsonBody(e, d) :
        e \in {Absent, List(<<>>), List(<<"e1">>)},
        d \in {Absent, PyNone, DataDict("d1")} }

StatusCodes == {200, 204, 401}

Responses == [status_code : StatusCodes, body : Bodies]

Running == [kind |-> "running"]
Return(value) == [kind |-> "return", value |-> value]
Raise(error, detail) == [kind |-> "raise", error |-> error, detail |-> detail]

\* `for attempt in range(self.max_retries)`: the loop body runs for this index.
InRange(a) == a < max_retries

\* Mutant: the last-attempt test off by one.
IsLastAttempt_OffByOne(a) == a = max_retries

\* `if attempt == self.max_retries - 1`
IsLastAttempt(a) == a = max_retries - 1

\* Mutant: only a populated `errors` list is a failure.
ResponseOutcome_PopulatedErrors(resp) ==
    IF resp = Unbound
        THEN Raise("UnboundLocalError", Str("response"))
    ELSE IF resp.status_code # 200
        THEN Raise("GraphQLRequestFailed", PyInt(resp.status_code))
    ELSE IF resp.body = NotJson
        THEN Raise("JSONDecodeError", Str("body"))
    ELSE IF resp.body.errors # Absent /\ resp.body.errors.items # <<>>
        THEN Raise("GraphQLError", resp.body.errors)
    ELSE Return(IF resp.body.data = Absent THEN EmptyDict ELSE resp.body.data)

\* The statements after the loop: the status check, response.json(), the
\* `errors` check and the return of result.get("data", {}).
ResponseOutcome(resp) ==
    IF resp = Unbound
        THEN Raise("UnboundLocalError", Str("response"))
    ELSE IF resp.status_code # 200
        THEN Raise("GraphQLRequestFailed", PyInt(resp.status_code))
    ELSE IF resp.body = NotJson
        THEN Raise("JSONDecodeError", Str("body"))
    ELSE IF resp.body.errors # Absent
        THEN Raise("GraphQLError", resp.body.errors)
    ELSE Return(IF resp.body.data = Absent THEN EmptyDict ELSE resp.body.data)

\* The entries of the history `events`: a post that raised (with str(e)), a post
\* that returned a response, a sleep.
PostFaultEvent(m) == [op |-> "post", result |-> "fault", msg |-> m]
PostResponseEvent == [op |-> "post", result |-> "response", msg |-> ""]
SleepEvent == [op |-> "sleep", result |-> "none", msg |-> ""]

\* The exporter before get_project_tasks is called, for the specifications of
\* the other components.
ExportIdle ==
    /\ board = <<>>
    /\ cursor = PyNone
    /\ all_tasks = <<>>
    /\ field_map = Unbound
    /\ fetches = <<>>
    /\ export_pc = "idle"
    /\ export_error = Running
    /\ output = Absent
    /\ output_file = Absent
    /\ exit_code = PyNone

\* The importer before import_item is called, for the specifications of the
\* other components.
ImportIdle ==
    /\ record = Absent
    /\ project_fields = Absent
    /\ import_pc = "idle"
    /\ assignee_ids = <<>>
    /\ content_id = PyNone
    /\ item_id = PyNone
    /\ field_pos = 0
    /\ calls = <<>>
    /\ import_result = Running

\* The importer before main reaches its loop, for the specifications of the
\* other components.
RunIdle ==
    /\ run_items = <<>>
    /\ batch_size = 10
    /\ continue_on_error = TRUE
    /\ run_i = 0
    /\ success_count = 0
    /\ run_log = <<>>
    /\ run_pc = "idle"
    /\ report = Absent

\* Either tool once main has reached its loop, for the specifications of the
\* other components.
StartIdle ==
    /\ tool = "none"
    /\ args = Absent
    /\ config = Absent
    /\ project_info = Unbound
    /\ csv_file = Unbound
    /\ start_pc = "idle"
    /\ start_calls = <<>>
    /\ start_exit = PyNone
    /\ csv_row = Absent
    /\ csv_item = Running
    /\ sheet_tasks = <<>>
    /\ sheet = Unbound

TransportInit ==
    /\ item = Absent
    /\ task = [kind |-> "idle"]
    /\ ExportIdle
    /\ ImportIdle
    /\ RunIdle
    /\ StartIdle
    /\ max_retries \in RetryConfigs
    /\ attempt = 0
    /\ pc = "loop"
    /\ events = <<>>
    /\ response = Unbound
    /\ outcome = Running

\* The transport before any call, for the specifications of the other components.
TransportIdle ==
    /\ max_retries = 3
    /\ attempt = 0
    /\ pc = "idle"
    /\ events = <<>>
    /\ response = Unbound
    /\ outcome = Running

\* requests.post raises a RequestException with message m: on the last attempt
\* the call raises, otherwise it logs a warning and goes to sleep.
PostFault(m) ==
    /\ pc = "loop"
    /\ InRange(attempt)
    /\ events' = Append(events, PostFaultEvent(m))
    /\ IF IsLastAttempt(attempt)
          THEN /\ pc' = "done"
               /\ outcome' = Raise("APIRequestFailed", Str(m))
          ELSE /\ pc' = "sleep"
               /\ outcome' = outcome
    /\ UNCHANGED <<max_retries, attempt, response>>
    /\ UNCHANGED outside_transport

\* Mutant: the retry goes on without the pause.
Sleep_NoPause ==
    /\ pc = "sleep"
    /\ attempt' = attempt + 1
    /\ pc' = "loop"
    /\ UNCHANGED <<max_retries, events, response, outcome>>
    /\ UNCHANGED outside_transport

\* time.sleep(self.retry_delay), then the next iteration of the loop.
Sleep ==
    /\ pc = "sleep"
    /\ events' = Append(events, SleepEvent)
    /\ attempt' = attempt + 1
    /\ pc' = "loop"
    /\ UNCHANGED <<max_retries, response, outcome>>
    /\ UNCHANGED outside_transport

\* Mutant: a non-200 response is treated like a connectivity fault and retried.
PostResponse_RetryOnStatus(r) ==
    /\ pc = "loop"
    /\ InRange(attempt)
    /\ events' = Append(events, PostResponseEvent)
    /\ response' = r
    /\ pc' = IF r.status_code # 200 /\ ~IsLastAttempt(attempt) THEN "sleep" ELSE "check"
    /\ UNCHANGED <<max_retries, attempt, outcome>>
    /\ UNCHANGED outside_transport

\* requests.post returns a response; `break` leaves the loop.
PostResponse(r) ==
    /\ pc = "loop"
    /\ InRange(attempt)
    /\ events' = Append(events, PostResponseEvent)
    /\ response' = r
    /\ pc' = "check"
    /\ UNCHANGED <<max_retries, attempt, outcome>>
    /\ UNCHANGED outside_transport

\* range(max_retries) is exhausted without a break.
LoopExhausted ==
    /\ pc = "loop"
    /\ ~InRange(attempt)
    /\ pc' = "check"
    /\ UNCHANGED <<max_retries, attempt, events, response, outcome>>
    /\ UNCHANGED outside_transport

\* The statements after the loop.
CheckResponse ==
    /\ pc = "check"
    /\ outcome' = ResponseOutcome(response)
    /\ pc' = "done"
    /\ UNCHANGED <<max_retries, attempt, events, response>>
    /\ UNCHANGED outside_transport

TransportNext ==
    \/ \E m \in FaultMessages : PostFault(m)
    \/ Sleep
    \/ \E r \in Responses : PostResponse(r)
    \/ LoopExhausted
    \/ CheckResponse

SpecTransport == TransportInit /\ [][TransportNext]_vars

----------------------------------------------------------------------------
(* _parse_task_item *)

\* dict.get(key, default): the value of a key, or the default when it is missing.
Get(v, default) == IF v = Absent THEN default ELSE v

\* Python truth of a None, a string, an integer or a non-empty dict.
Truthy(v) ==
    CASE v.t = "absent" -> FALSE
      [] v.t = "None" -> FALSE
      [] v.t = "str" -> v.v # ""
      [] v.t = "int" -> v.v # 0
      [] OTHER -> TRUE

\* str(x) of a JSON number or null.
PyStr(v) ==
    CASE v.t = "None" -> Str("None")
      [] v.t = "int" -> Str(ToString(v.v))
      [] OTHER -> v

\* str.lower() on the field names, option names and values the model uses.
Lower(s) ==
    CASE s = "Status" -> "status"
      [] s = "STATUS" -> "status"
      [] s = "Priority" -> "priority"
      [] s = "Estimate" -> "estimate"
      [] s = "Size" -> "size"
      [] s = "Iteration" -> "iteration"
      [] s = "Low" -> "low"
      [] s = "High" -> "high"
      [] s = "HIGH" -> "high"
      [] s = "Critical" -> "critical"
      [] s = "M" -> "m"
      [] OTHER -> s

\* The lowest index (from 0) at which sub occurs in s, or -1: str.find. Both are
\* sequences of characters.
Find(s, sub) ==
    LET at == {i \in 0..(Len(s) - Len(sub)) : SubSeq(s, i + 1, i + Len(sub)) = sub}
    IN IF at = {} THEN 0 - 1
       ELSE CHOOSE i \in at : \A j \in at : i <= j

\* "/pull/"
PullMarker == <<"/", "p", "u", "l", "l", "/">>

\* `"pullRequest" in str(type(content)).lower()`: content is a dict, whose type
\* prints as "<class 'dict'>", and no lower-cased string holds a capital R.
TypeNameHasPullRequest == FALSE

\* A content payload: a dict with these keys (Absent: the key is missing). The
\* url is a string of characters; comments is the List of the comment nodes.
Content(title, number, url, state, comments) ==
    [t |-> "dict", title |-> title, number |-> number, url |-> url,
     state |-> state, comments |-> comments]

\* `not content`: the key is missing, null, or an empty dict.
ContentFalsy(content) ==
    \/ content = Absent
    \/ content = PyNone
    \/ /\ content.title = Absent
       /\ content.number = Absent
       /\ content.url = Absent
       /\ content.state = Absent
       /\ content.comments = Absent

NoRecord == [kind |-> "none"]
Pending == [kind |-> "pending"]
\* None has no attribute get / find / lower.
ParseError == [kind |-> "error", error |-> "AttributeError"]

\* Lines 362-366: the content type, or ParseError when the url is null.
content_type(content) ==
    IF content.number # Absent /\ (TypeNameHasPullRequest \/ content.state # Absent)
        THEN LET url == Get(content.url, Str(<<>>))
             IN IF url = PyNone THEN ParseError
                ELSE IF Find(url.v, PullMarker) > 0
                        THEN [v |-> "PullRequest", kind |-> "ok"]
                        ELSE [v |-> "Issue", kind |-> "ok"]
        ELSE [v |-> "DraftIssue", kind |-> "ok"]

\* A comment node and its author.
Comment(id, body, author) == [id |-> id, body |-> body, author |-> author]
Author(login, name) == [t |-> "dict", login |-> login, name |-> name]

\* Lines 409-418: the kept form of a comment with author dict `author`.
comment_info(comment, author) ==
    [id |-> comment.id,
     body |-> comment.body,
     author |-> [login |-> Get(author.login, Str("")),
                 name |-> Get(author.name, Str(""))]]

\* Lines 405-419: the loop over the comment nodes; ParseError when a kept
\* comment's author is null.
RECURSIVE task_comments(_, _)
task_comments(comments_data, acc) ==
    IF comments_data = <<>> THEN [v |-> acc, kind |-> "ok"]
    ELSE LET comment == Head(comments_data)
         IN IF ~Truthy(comment.body)
               THEN task_comments(Tail(comments_data), acc)
            ELSE LET author == Get(comment.author, Author(Absent, Absent))
                 IN IF author = PyNone THEN ParseError
                    ELSE task_comments(Tail(comments_data),
                                       Append(acc, comment_info(comment, author)))

\* The synonym lists of lines 448-455. The localized names are written in
\* pinyin: zhuangtai = U+72B6 U+6001, youxianji = U+4F18 U+5148 U+7EA7,
\* daxiao = U+5927 U+5C0F, chicun = U+5C3A U+5BF8, gusuan = U+4F30 U+7B97,
\* gongzuoliang = U+5DE5 U+4F5C U+91CF.
StatusNames == {"status", "zhuangtai"}
PriorityNames == {"priority", "youxianji"}
SizeNames == {"size", "daxiao", "chicun"}
EstimateNames == {"estimate", "gusuan", "gongzuoliang"}

\* A raw field value node: the field back-reference and the value slots.
RawValue(field, text, number, name, date, title) ==
    [title |-> title, number |-> number, name |-> name, field |-> field,
     text |-> text, date |-> date]
FieldRef(name) == [t |-> "dict", name |-> Str(name)]

\* Lines 432-442: the value of the first slot whose key is present.
field_value_of(field_value) ==
    IF field_value.text # Absent THEN field_value.text
    ELSE IF field_value.number # Absent THEN PyStr(field_value.number)
    ELSE IF field_value.name # Absent THEN field_value.name
    ELSE IF field_value.date # Absent THEN field_value.date
    ELSE IF field_value.title # Absent THEN field_value.title
    ELSE PyNone

\* d[k] = v on a dict held as a function.
DictPut(d, k, v) == [x \in DOMAIN d \cup {k} |-> IF x = k THEN v ELSE d[x]]
EmptyFields == [x \in {} |-> PyNone]

\* Mutant: an entry already stored under the name is kept (first write wins).
store_field_KeepFirst(t, field_name, value) ==
    LET stored == IF field_name \in DOMAIN t.custom_fields
                     THEN t
                     ELSE [t EXCEPT !.custom_fields = DictPut(@, field_name, value)]
    IN IF field_name \in StatusNames THEN [stored EXCEPT !.status = value]
       ELSE IF field_name \in PriorityNames THEN [stored EXCEPT !.priority = value]
       ELSE IF field_name \in SizeNames THEN [stored EXCEPT !.size = value]
       ELSE IF field_name \in EstimateNames THEN [stored EXCEPT !.estimate = value]
       ELSE stored

\* Mutant: a value of a synonym-named field is promoted without being stored.
store_field_PromoteOnly(t, field_name, value) ==
    IF field_name \in StatusNames THEN [t EXCEPT !.status = value]
    ELSE IF field_name \in PriorityNames THEN [t EXCEPT !.priority = value]
    ELSE IF field_name \in SizeNames THEN [t EXCEPT !.size = value]
    ELSE IF field_name \in EstimateNames THEN [t EXCEPT !.estimate = value]
    ELSE [t EXCEPT !.custom_fields = DictPut(@, field_name, value)]

\* Lines 445-455: store the value under the lower-cased name, then promote it.
store_field(t, field_name, value) ==
    LET stored == [t EXCEPT !.custom_fields = DictPut(@, field_name, value)]
    IN IF field_name \in StatusNames THEN [stored EXCEPT !.status = value]
       ELSE IF field_name \in PriorityNames THEN [stored EXCEPT !.priority = value]
       ELSE IF field_name \in SizeNames THEN [stored EXCEPT !.size = value]
       ELSE IF field_name \in EstimateNames THEN [stored EXCEPT !.estimate = value]
       ELSE stored

\* Lines 423-455: the loop over the raw field values of the item.
RECURSIVE apply_field_values(_, _)
apply_field_values(field_values, t) ==
    IF field_values = <<>> THEN t
    ELSE LET field_value == Head(field_values)
             field_info == Get(field_value.field, PyNone)
         IN IF ~Truthy(field_info)
               THEN apply_field_values(Tail(field_values), t)
            ELSE LET field_name == Lower(Get(field_info.name, Str("")).v)
                     value == field_value_of(field_value)
                 IN IF Truthy(value)
                       THEN apply_field_values(Tail(field_values),
                                               store_field(t, field_name, value))
                       ELSE apply_field_values(Tail(field_values), t)

\* An item node of the project.
Item(id, content, fieldValues) ==
    [id |-> id, content |-> content, fieldValues |-> fieldValues]

\* _parse_task_item(item, field_map), with fm for field_map: NoRecord for None, a TaskInfo, or
\* ParseError when an attribute of None is used. field_map is not read.
_parse_task_item(it, fm) ==
    IF ContentFalsy(it.content) THEN NoRecord
    ELSE LET content == it.content
             ctype == content_type(content)
             comments == task_comments(Get(content.comments, List(<<>>)).items, <<>>)
         IN IF ctype.kind = "error" THEN ParseError
            ELSE IF comments.kind = "error" THEN ParseError
            ELSE apply_field_values(it.fieldValues,
                    [id |-> it.id,
                     kind |-> "task",
                     title |-> Get(content.title, Str("")),
                     number |-> Get(content.number, PyNone),
                     url |-> Get(content.url, PyNone),
                     state |-> Get(content.state, PyNone),
                     comments |-> comments.v,
                     content_type |-> ctype.v,
                     custom_fields |-> EmptyFields,
                     status |-> PyNone,
                     priority |-> PyNone,
                     size |-> PyNone,
                     estimate |-> PyNone])

(* The items _parse_task_item is applied to *)

\* Longest list of comments and of raw field values on one item.
MaxComments == 3
MaxFieldValues == 3

\* Urls: "/pull/7", "gh/o/r/pull/7", "gh/o/r/issues/7", "gh/o/r/pull", "".
Urls ==
    { <<"/", "p", "u", "l", "l", "/", "7">>,
      <<"g", "h", "/", "o", "/", "r", "/", "p", "u", "l", "l", "/", "7">>,
      <<"g", "h", "/", "o", "/", "r", "/", "i", "s", "s", "u", "e", "s", "/", "7">>,
      <<"g", "h", "/", "o", "/", "r", "/", "p", "u", "l", "l">>,
      <<>> }

DraftContent == Content(Str("T"), Absent, Absent, Absent, Absent)
EmptyContent == Content(Absent, Absent, Absent, Absent, Absent)

\* Items that differ in their content: none, or every combination of number,
\* url and state.
ContentItems ==
    { Item("I1", c, <<>>) : c \in {Absent, PyNone, EmptyContent} } \cup
    { Item("I1", Content(Str("T"), n, u, s, Absent), <<>>) :
        n \in {Absent, PyNone, PyInt(7)},
        u \in {Absent, PyNone} \cup {Str(x) : x \in Urls},
        s \in {Absent, Str("OPEN")} }

\* The authors a comment node carries: the key missing, null (a deleted
\* account), or a dict whose name is missing, null, "" or a name.
Authors ==
    {Absent, PyNone} \cup
    { Author(Str("ann"), n) : n \in {Absent, PyNone, Str(""), Str("Ann")} }

\* A comment node without its id: every body with a named author, and a body
\* with every author.
CommentShapes ==
    { [body |-> b, author |-> Author(Str("ann"), Str("Ann"))] :
        b \in {Absent, PyNone, Str(""), Str("hello")} } \cup
    { [body |-> Str("hello"), author |-> a] : a \in Authors }

\* The id of the k-th comment node of an item.
CommentId(k) == ToString(k)

\* The item whose comment nodes have the shapes cs, in that order.
CommentItem(cs) ==
    Item("I1",
         Content(Str("T"), Absent, Absent, Absent,
                 List([k \in 1..Len(cs) |-> Comment(CommentId(k), cs[k].body, cs[k].author)])),
         <<>>)

\* The field names of the board, as the API returns them.
FieldNames ==
    {"Status", "status", "zhuangtai", "Priority", "chicun", "Estimate", "Iteration"}

TextValue(n, x) == RawValue(FieldRef(n), x, Absent, Absent, Absent, Absent)

\* Raw text values: every field name with a text, and the status fields with
\* another text, an empty text and a null text.
NamedValues ==
    { TextValue(n, Str("a")) : n \in FieldNames } \cup
    { TextValue(n, x) : n \in {"Status", "status"}, x \in {Str("b"), Str("")} } \cup
    { TextValue("Status", PyNone) }

\* Raw values of every shape of slots (one slot, none, a null or empty slot
\* beside a populated one) on one field, and one with no field back-reference.
ShapedValues ==
    { RawValue(FieldRef("Estimate"), s[1], s[2], s[3], s[4], s[5]) :
        s \in { <<Absent, PyNone, Absent, Absent, Absent>>,
                <<Absent, PyInt(0), Absent, Absent, Absent>>,
                <<Absent, PyInt(3), Absent, Absent, Absent>>,
                <<Absent, Absent, Str("c"), Absent, Absent>>,
                <<Absent, Absent, Absent, Str("d"), Absent>>,
                <<Absent, Absent, Absent, Absent, Str("t")>>,
                <<Absent, Absent, Absent, Absent, Absent>>,
                <<PyNone, PyInt(3), Absent, Absent, Absent>>,
                <<Str(""), Absent, Str("c"), Absent, Absent>> } } \cup
    { RawValue(Absent, Str("a"), Absent, Absent, Absent, Absent) }

\* The item whose field values are fvs, in that order.
FieldItem(fvs) == Item("I1", DraftContent, fvs)

\* The id -> field catalog handed to _parse_task_item, which does not read it.
NoFieldMap == EmptyFields

\* The item handed to _parse_task_item: one that differs in its content, one
\* with up to MaxComments comments, or one with up to MaxFieldValues field
\* values.
ParseInit ==
    /\ TransportIdle
    /\ ExportIdle
    /\ ImportIdle
    /\ RunIdle
    /\ StartIdle
    /\ \/ item \in ContentItems
       \/ \E k \in 0..MaxComments : \E cs \in [1..k -> CommentShapes] :
            item = CommentItem(cs)
       \/ \E k \in 0..MaxFieldValues : \E fvs \in [1..k -> NamedValues] :
            item = FieldItem(fvs)
       \/ \E k \in 0..MaxFieldValues : \E fvs \in [1..k -> ShapedValues] :
            item = FieldItem(fvs)
    /\ task = Pending

\* task = self._parse_task_item(item, field_map)
ParseTaskItem ==
    /\ task = Pending
    /\ task' = _parse_task_item(item, NoFieldMap)
    /\ UNCHANGED item
    /\ UNCHANGED outside_parse

ParseNext == ParseTaskItem

SpecParse == ParseInit /\ [][ParseNext]_vars

----------------------------------------------------------------------------
(* get_project_tasks *)

\* Most pages a board has, and the fetches after which a run is cut off.
MaxPages == 3
MaxFetches == 4

\* One page of the project as the server answers it: the project's item nodes,
\* pageInfo and field nodes.
Page(items, hasNextPage, endCursor, fields) ==
    [items |-> items, hasNextPage |-> hasNextPage, endCursor |-> endCursor,
     fields |-> fields]

DraftItem == Item("I1", DraftContent, <<>>)
IssueItem ==
    Item("I2",
         Content(Str("T"), PyInt(7),
                 Str(<<"g", "h", "/", "o", "/", "r", "/", "i", "s", "s", "u", "e", "s", "/", "7">>),
                 Str("OPEN"), Absent),
         <<RawValue(FieldRef("Status"), Str("a"), Absent, Absent, Absent, Absent)>>)
NoContentItem == Item("I3", PyNone, <<>>)
\* An item with a comment whose author is null (a deleted account).
GhostCommentItem ==
    Item("I4",
         Content(Str("T"), Absent, Absent, Absent,
                 List(<<Comment("K1", Str("hello"), PyNone)>>)),
         <<>>)

\* The item lists a page holds.
PageItemLists ==
    { <<>>,
      <<DraftItem>>,
      <<NoContentItem, IssueItem>>,
      <<IssueItem, DraftItem>>,
      <<DraftItem, GhostCommentItem>> }

\* The field nodes of the project.
BoardFields == <<[id |-> "F1", name |-> "Status"], [id |-> "F2", name |-> "Estimate"]>>

\* The i-th page when more pages follow: hasNextPage is true and endCursor is a
\* cursor of its own, null or "".
NonFinalPages(i) ==
    { Page(l, TRUE, c, BoardFields) :
        l \in PageItemLists, c \in {Str(ToString(i)), PyNone, Str("")} }

\* The i-th page when it is the last: hasNextPage is false.
FinalPages(i) == { Page(l, FALSE, Str(ToString(i)), BoardFields) : l \in PageItemLists }

RECURSIVE PagePrefixes(_)
PagePrefixes(k) ==
    IF k = 0 THEN {<<>>}
    ELSE {Append(p, pg) : p \in PagePrefixes(k - 1), pg \in NonFinalPages(k)}

\* The pagings of a board: 1..MaxPages pages, all but the last reporting
\* hasNextPage.
Pagings ==
    UNION { {Append(p, f) : p \in PagePrefixes(n - 1), f \in FinalPages(n)} :
            n \in 1..MaxPages }

\* The field nodes after the project was edited while the run went on: Status
\* renamed, a field added.
EditedFields ==
    <<[id |-> "F1", name |-> "Stage"], [id |-> "F2", name |-> "Estimate"],
      [id |-> "F3", name |-> "Sprint"]>>

\* Every page answers the field nodes the project has when the page is
\* requested: the pages from the k-th on are answered after the edit.
EditedFrom(b, k) ==
    [i \in 1..Len(b) |-> [b[i] EXCEPT !.fields = IF i < k THEN BoardFields ELSE EditedFields]]

\* The boards: the pagings of a project that is not edited, and those of one
\* draft a page of a project edited after its first page was answered.
Boards ==
    { EditedFrom(b, MaxPages + 1) : b \in Pagings } \cup
    { EditedFrom(b, 2) : b \in {p \in Pagings : \A i \in 1..Len(p) : p[i].items = <<DraftItem>>} }

\* The page the server answers a request with: the first page when the request
\* carries no cursor, the page after the one that reported the cursor otherwise.
ServerPage(b, request_cursor) ==
    IF request_cursor = Absent THEN b[1]
    ELSE b[(CHOOSE i \in 1..Len(b) : b[i].endCursor = request_cursor) + 1]

\* Lines 322-324: the cursor variable of the request; `if cursor:` leaves it
\* out when the cursor is None or "".
request_variables(c) == IF Truthy(c) THEN c ELSE Absent

\* Lines 335-337: the id -> field mapping built from the field nodes.
build_field_map(fields) ==
    [id \in {fields[i].id : i \in 1..Len(fields)} |->
        (CHOOSE f \in {fields[i] : i \in 1..Len(fields)} : f.id = id)]

\* Lines 341-344: the loop over the items of a page; ParseError when
\* _parse_task_item raises.
RECURSIVE parse_items(_, _, _)
parse_items(items, fm, tasks) ==
    IF items = <<>> THEN [v |-> tasks, kind |-> "ok"]
    ELSE LET parsed == _parse_task_item(Head(items), fm)
         IN IF parsed.kind = "error" THEN ParseError
            ELSE IF parsed.kind = "none" THEN parse_items(Tail(items), fm, tasks)
            ELSE parse_items(Tail(items), fm, Append(tasks, parsed))

\* The errors execute_graphql raises: the fatal transport error, and what the
\* statements after its loop raise for a rejected response.
ExecuteErrors ==
    { Raise("APIRequestFailed", Str(m)) : m \in FaultMessages } \cup
    { o \in {ResponseOutcome(r) : r \in Responses} : o.kind = "raise" }

ExportInit ==
    /\ TransportIdle
    /\ ImportIdle
    /\ RunIdle
    /\ StartIdle
    /\ item = Absent
    /\ task = [kind |-> "idle"]
    /\ board \in Boards
    /\ cursor = PyNone
    /\ all_tasks = <<>>
    /\ field_map = Unbound
    /\ fetches = <<>>
    /\ export_pc = "loop"
    /\ export_error = Running
    /\ output = Absent
    /\ output_file = Absent
    /\ exit_code = PyNone

\* One iteration of `while True` in which execute_graphql raises: the
\* exception leaves get_project_tasks.
FetchRaises(e) ==
    /\ export_pc = "loop"
    /\ Len(fetches) < MaxFetches
    /\ fetches' = Append(fetches, [cursor |-> request_variables(cursor), result |-> "raise"])
    /\ export_pc' = "raised"
    /\ export_error' = e
    /\ UNCHANGED <<board, cursor, all_tasks, field_map, main_vars>>
    /\ UNCHANGED outside_export

\* One iteration in which the data has no `node`: the project is not found.
FetchNoProject ==
    /\ export_pc = "loop"
    /\ Len(fetches) < MaxFetches
    /\ fetches' = Append(fetches, [cursor |-> request_variables(cursor), result |-> "no node"])
    /\ export_pc' = "raised"
    /\ export_error' = Raise("ProjectNotFound", Str("project_id"))
    /\ UNCHANGED <<board, cursor, all_tasks, field_map, main_vars>>
    /\ UNCHANGED outside_export

\* One iteration in which execute_graphql returns a page: the field map is
\* built, the items are parsed and appended, and pageInfo decides whether the
\* loop goes on with cursor = endCursor.
FetchPage ==
    /\ export_pc = "loop"
    /\ Len(fetches) < MaxFetches
    /\ LET project == ServerPage(board, request_variables(cursor))
           fm == build_field_map(project.fields)
           parsed == parse_items(project.items, fm, all_tasks)
       IN /\ fetches' = Append(fetches, [cursor |-> request_variables(cursor), result |-> "page"])
          /\ field_map' = fm
          /\ IF parsed.kind = "error"
                THEN /\ export_pc' = "raised"
                     /\ export_error' = Raise("AttributeError", Str("NoneType"))
                     /\ UNCHANGED <<cursor, all_tasks>>
                ELSE /\ all_tasks' = parsed.v
                     /\ export_error' = export_error
                     /\ IF ~project.hasNextPage
                           THEN export_pc' = "done" /\ cursor' = cursor
                           ELSE export_pc' = "loop" /\ cursor' = project.endCursor
    /\ UNCHANGED <<board, main_vars>>
    /\ UNCHANGED outside_export

\* args.output by its extension; Absent when --output is not given and the
\* tasks are printed instead.
Outputs == {Str(".json"), Str(".csv"), Str(".txt"), Absent}

\* The ids of the tasks, in order: what a written file holds of them.
TaskIds(tasks) == [i \in 1..Len(tasks) |-> tasks[i].id]

\* Lines 681-711 of main, get_project_tasks having returned `tasks`: the file
\* that exists afterwards and the exit status. export_to_json always writes
\* the file; export_to_csv returns at once, writing nothing, for no tasks; any
\* other extension is refused with sys.exit(1).
write_output(o, tasks) ==
    IF o = Str(".json")
        THEN [file |-> List(TaskIds(tasks)), exit |-> PyInt(0)]
    ELSE IF o = Str(".csv")
        THEN [file |-> IF tasks = <<>> THEN Absent ELSE List(TaskIds(tasks)),
              exit |-> PyInt(0)]
    ELSE IF o = Absent
        THEN [file |-> Absent, exit |-> PyInt(0)]
    ELSE [file |-> Absent, exit |-> PyInt(1)]

\* main after get_project_tasks returned: the output is written.
MainWrites(o) ==
    /\ export_pc = "done"
    /\ exit_code = PyNone
    /\ output' = o
    /\ output_file' = write_output(o, all_tasks).file
    /\ exit_code' = write_output(o, all_tasks).exit
    /\ UNCHANGED <<board, cursor, all_tasks, field_map, fetches, export_pc, export_error>>
    /\ UNCHANGED outside_export

\* Mutant: the tasks fetched before the failure are written out.
MainFails_WritesPartial(o) ==
    /\ export_pc = "raised"
    /\ exit_code = PyNone
    /\ output' = o
    /\ output_file' = write_output(o, all_tasks).file
    /\ exit_code' = PyInt(1)
    /\ UNCHANGED <<board, cursor, all_tasks, field_map, fetches, export_pc, export_error>>
    /\ UNCHANGED outside_export

\* main after get_project_tasks raised: `except Exception` logs the error and
\* calls sys.exit(1); the statements that write the output are skipped.
MainFails(o) ==
    /\ export_pc = "raised"
    /\ exit_code = PyNone
    /\ output' = o
    /\ output_file' = Absent
    /\ exit_code' = PyInt(1)
    /\ UNCHANGED <<board, cursor, all_tasks, field_map, fetches, export_pc, export_error>>
    /\ UNCHANGED outside_export

ExportNext ==
    \/ \E e \in ExecuteErrors : FetchRaises(e)
    \/ FetchNoProject
    \/ FetchPage
    \/ \E o \in Outputs : MainWrites(o)
    \/ \E o \in Outputs : MainFails(o)

SpecExport == ExportInit /\ [][ExportNext]_vars

----------------------------------------------------------------------------
(* import_item *)

\* Most assignees a record names.
MaxAssignees == 2

\* A ProjectItem as parse_csv_row builds it; the title is the same for all.
ProjectItem(ctype, assignees, status, priority, estimate, size, repository, issue_number) ==
    [title |-> Str("T"), content_type |-> ctype, status |-> status,
     priority |-> priority, size |-> size, estimate |-> estimate, assignees |-> assignees,
     repository |-> repository, issue_number |-> issue_number]

\* A field node of the board: a dict with these keys (Absent: the key is
\* missing); options is the List of [id, name] options of a single-select field.
FieldNode(id, name, dataType, options) ==
    [t |-> "dict", id |-> id, name |-> name, dataType |-> dataType, options |-> options]
Option(id, name) == [id |-> Str(id), name |-> name]

\* The node of a field that neither fragment of the query at lines 124-137
\* matches (an iteration field): an empty dict.
EmptyNode == FieldNode(Absent, Absent, Absent, Absent)

\* project_info.get("fields", {}): a dict whose `nodes` is a List or is missing.
Fields(nodes) == [t |-> "dict", nodes |-> nodes]
FieldNodes(pf) == Get(pf.nodes, List(<<>>)).items

\* One execute_graphql call of import_item, as the history keeps it: the
\* operation, the variables sent, and how the call ended (a Return of the data
\* or a Raise).
Call(op, arg, result) == [op |-> op, result |-> result, arg |-> arg]

\* The errors an execute_graphql call of the importer ends with: the transport
\* gave up, the API rejected the request, the body was not JSON.
CallErrors ==
    { Raise("APIRequestFailed", Str("Timeout")),
      Raise("GraphQLError", List(<<"e1">>)),
      Raise("JSONDecodeError", Str("body")) }

\* Lines 352-360: the record is resolved by create-draft when its content_type
\* is "draft", and otherwise unless repository and issue_number are both truthy.
creates_draft(rec) ==
    \/ rec.content_type = Str("draft")
    \/ ~(Truthy(rec.repository) /\ Truthy(rec.issue_number))

\* The node id of a user.
UserId(login) == Str(CASE login = "ann" -> "U_ann" [] login = "bob" -> "U_bob" [] OTHER -> "U")

\* What the lookup of one login ends with: the user is found, `user` is null,
\* or execute_graphql raises.
UserAnswers == {Return(Str("found")), Return(PyNone)} \cup CallErrors

\* get_user_id: the id of the user, or None when `user` is null and when the
\* call raises (both `except Exception` clauses, lines 164 and 212).
get_user_id(login, answer) ==
    IF answer = Return(Str("found")) THEN UserId(login) ELSE PyNone

\* The variables of the addProjectV2DraftIssue mutation that the model keeps.
DraftInput(ids) == [t |-> "draft", assigneeIds |-> ids]

\* repository.split("/") at line 241, on the repository names the model uses.
split_repository(repository) ==
    CASE repository = Str("o/r") -> [owner |-> "o", repo |-> "r"]
      [] OTHER -> [owner |-> "", repo |-> repository.v]

\* The `repository` object of the answer to the query of get_issue_id.
Repo(issue, pullRequest) == [t |-> "dict", issue |-> issue, pullRequest |-> pullRequest]
Node(id) == [t |-> "dict", id |-> Str(id)]

\* What the query of get_issue_id ends with: execute_graphql raises, or returns
\* data whose `repository` is missing, null, or an object whose `issue` and
\* `pullRequest` are each null or a node.
RepositoryAnswers ==
    CallErrors \cup
    { Return(r) : r \in {Absent, PyNone} \cup
                        { Repo(i, pr) : i \in {PyNone, Node("I_7")},
                                        pr \in {PyNone, Node("PR_7")} } }

\* Lines 262-271 of get_issue_id, for the answer of its query.
get_issue_id(answer) ==
    IF answer.kind = "raise" THEN answer
    ELSE IF answer.value = PyNone
        THEN Raise("AttributeError", Str("NoneType"))
    ELSE IF answer.value = Absent
        THEN Raise("NotFound", Str("Issue/PR"))
    ELSE IF answer.value.issue # PyNone
        THEN Return(answer.value.issue.id)
    ELSE IF answer.value.pullRequest # PyNone
        THEN Return(answer.value.pullRequest.id)
    ELSE Raise("NotFound", Str("Issue/PR"))

\* Line 363: `field["name"]` raises KeyError on a node without a name.
HasNamelessNode(pf) == \E i \in 1..Len(FieldNodes(pf)) : FieldNodes(pf)[i].name = Absent

\* Line 363: the dict from lower-cased name to field node; a later node
\* replaces an earlier one of the same lower-cased name.
import_field_map(pf) ==
    LET nodes == FieldNodes(pf)
        LastNamed(n) == CHOOSE i \in 1..Len(nodes) :
                           /\ Lower(nodes[i].name.v) = n
                           /\ \A j \in 1..Len(nodes) : Lower(nodes[j].name.v) = n => j <= i
    IN [n \in {Lower(nodes[i].name.v) : i \in 1..Len(nodes)} |-> nodes[LastNamed(n)]]

\* Lines 366-371: the promoted fields, in the order of the dict field_updates.
FieldUpdates == <<"status", "priority", "estimate", "size">>

\* float(value) succeeds, on the values the model uses.
ParsesAsFloat(value) == value \in {"3", "0"}
FloatOf(value) == CASE value = "3" -> 3 [] OTHER -> 0
PyFloat(x) == [t |-> "float", v |-> x]

\* Lines 383-387: the id of the first option whose lower-cased name equals the
\* lower-cased value, None if there is none.
RECURSIVE option_id_of(_, _)
option_id_of(options, field_value) ==
    IF options = <<>> THEN PyNone
    ELSE IF Lower(Head(options).name.v) = Lower(field_value.v) THEN Head(options).id
    ELSE option_id_of(Tail(options), field_value)

NoUpdate == [kind |-> "skip"]
Update(field_id, value, field_type) ==
    [kind |-> "update", value |-> value, field_id |-> field_id, field_type |-> field_type]

\* Lines 374-405: what the loop does for the k-th promoted field: nothing, or
\* a call of update_field_value with these arguments.
field_update(rec, fm, k) ==
    LET field_name == FieldUpdates[k]
        field_value == rec[field_name]
    IN IF ~(Truthy(field_value) /\ field_name \in DOMAIN fm) THEN NoUpdate
       ELSE LET field_info == fm[field_name]
                field_data_type == field_info.dataType
            IN IF field_data_type = Str("SINGLE_SELECT")
                  THEN LET option_id ==
                               option_id_of(Get(field_info.options, List(<<>>)).items,
                                            field_value)
                       IN IF Truthy(option_id)
                             THEN Update(field_info.id, option_id, "SINGLE_SELECT")
                             ELSE NoUpdate
               ELSE IF field_data_type = Str("NUMBER")
                  THEN IF ParsesAsFloat(field_value.v)
                          THEN Update(field_info.id, field_value, "NUMBER")
                          ELSE NoUpdate
               ELSE Update(field_info.id, field_value, "TEXT")

\* Lines 275-343 of update_field_value: the variables of the mutation, the
\* value in the slot its field type selects.
update_variables(target, u) ==
    [t |-> "update",
     value |-> IF u.field_type = "NUMBER" THEN PyFloat(FloatOf(u.value.v)) ELSE u.value,
     itemId |-> target,
     fieldId |-> u.field_id,
     slot |-> CASE u.field_type = "SINGLE_SELECT" -> "singleSelectOptionId"
                [] u.field_type = "NUMBER" -> "number"
                [] OTHER -> "text"]

\* Lines 396-401: `except ValueError` around the NUMBER update also catches the
\* JSONDecodeError (a ValueError) that response.json() raises in the update.
update_error_caught(u, e) == u.field_type = "NUMBER" /\ e.error = "JSONDecodeError"

----------------------------------------------------------------------------
(* import_item: the records, the boards and the steps *)

Logins == {"ann", "bob"}

\* A record with nothing but a title.
BareRecord ==
    ProjectItem(Str("draft"), <<>>, PyNone, PyNone, PyNone, PyNone, PyNone, PyNone)

\* Records that differ in what decides between attach-existing and create-draft.
RouteRecords ==
    { [BareRecord EXCEPT !.content_type = ct, !.repository = rp, !.issue_number = n,
                         !.status = st] :
        ct \in {Str("draft"), Str("issue"), Str("")},
        rp \in {PyNone, Str(""), Str("o/r"), Str("r")},
        n \in {PyNone, PyInt(0), PyInt(7)},
        st \in {PyNone, Str("High")} }

\* Records that differ in their promoted fields.
FieldRecords ==
    { [BareRecord EXCEPT !.status = st, !.priority = pr, !.estimate = es, !.size = sz] :
        st \in {PyNone, Str(""), Str("High")},
        pr \in {PyNone, Str("high"), Str("Critical")},
        es \in {PyNone, Str("3"), Str("abc")},
        sz \in {PyNone, Str("M")} }

SelectOptions == List(<<Option("O_low", Str("Low")), Option("O_high", Str("High")),
                        Option("O_HIGH", Str("HIGH"))>>)

\* A board with a field of every kind.
TypedBoard ==
    <<FieldNode(Str("F_status"), Str("Status"), Str("SINGLE_SELECT"), SelectOptions),
      FieldNode(Str("F_priority"), Str("Priority"), Str("SINGLE_SELECT"), SelectOptions),
      FieldNode(Str("F_estimate"), Str("Estimate"), Str("NUMBER"), Absent),
      FieldNode(Str("F_size"), Str("Size"), Str("TEXT"), Absent)>>

\* A board of text fields, one named in upper case, one without a dataType,
\* and no priority field.
TextBoard ==
    <<FieldNode(Str("F_status"), Str("STATUS"), Str("TEXT"), Absent),
      FieldNode(Str("F_estimate"), Str("estimate"), Str("TEXT"), Absent),
      FieldNode(Str("F_size"), Str("size"), Absent, Absent)>>

\* A board with two fields of the same lower-cased name.
TwiceNamedBoard ==
    <<FieldNode(Str("F_status"), Str("Status"), Str("SINGLE_SELECT"), SelectOptions),
      FieldNode(Str("F_status2"), Str("status"), Str("TEXT"), Absent)>>

\* The boards: with or without an iteration field, whose node is empty.
ProjectFields ==
    { Fields(Absent), Fields(List(<<>>)),
      Fields(List(TypedBoard)), Fields(List(TextBoard)), Fields(List(TwiceNamedBoard)),
      Fields(List(Append(TypedBoard, EmptyNode))) }

ImportItemInit ==
    /\ TransportIdle
    /\ item = Absent
    /\ task = [kind |-> "idle"]
    /\ ExportIdle
    /\ RunIdle
    /\ StartIdle
    /\ \/ record \in RouteRecords /\ project_fields = Fields(List(TypedBoard))
       \/ record \in FieldRecords /\ project_fields \in ProjectFields
       \/ /\ \E k \in 0..MaxAssignees : \E a \in [1..k -> Logins] :
                record = [BareRecord EXCEPT !.assignees = a]
          /\ project_fields = Fields(List(TypedBoard))
    /\ import_pc = "route"
    /\ assignee_ids = <<>>
    /\ content_id = PyNone
    /\ item_id = PyNone
    /\ field_pos = 0
    /\ calls = <<>>
    /\ import_result = Running

\* Lines 352-360: the branch taken.
ChooseRoute ==
    /\ import_pc = "route"
    /\ import_pc' = IF creates_draft(record) THEN "assignees" ELSE "get_issue"
    /\ UNCHANGED <<record, project_fields, assignee_ids, content_id, item_id, field_pos,
                   calls, import_result>>
    /\ UNCHANGED outside_import

\* Mutant: a lookup that raises aborts the creation.
LookupAssignee_Aborts(answer) ==
    /\ import_pc = "assignees"
    /\ Len(calls) < Len(record.assignees)
    /\ LET assignee_login == record.assignees[Len(calls) + 1]
           user_id == get_user_id(assignee_login, answer)
       IN /\ calls' = Append(calls, Call("user", Str(assignee_login), answer))
          /\ assignee_ids' = IF Truthy(user_id) THEN Append(assignee_ids, user_id)
                             ELSE assignee_ids
    /\ IF answer.kind = "raise"
          THEN import_pc' = "raised" /\ import_result' = answer
          ELSE UNCHANGED <<import_pc, import_result>>
    /\ UNCHANGED <<record, project_fields, content_id, item_id, field_pos>>
    /\ UNCHANGED outside_import

\* Lines 159-165: one turn of the loop over item.assignees; the id is kept when
\* the lookup gives one.
LookupAssignee(answer) ==
    /\ import_pc = "assignees"
    /\ Len(calls) < Len(record.assignees)
    /\ LET assignee_login == record.assignees[Len(calls) + 1]
           user_id == get_user_id(assignee_login, answer)
       IN /\ calls' = Append(calls, Call("user", Str(assignee_login), answer))
          /\ assignee_ids' = IF Truthy(user_id) THEN Append(assignee_ids, user_id)
                             ELSE assignee_ids
    /\ UNCHANGED <<record, project_fields, import_pc, content_id, item_id, field_pos,
                   import_result>>
    /\ UNCHANGED outside_import

\* Lines 182-190: the addProjectV2DraftIssue mutation, after the loop over the
\* assignees; its exception leaves import_item.
CreateDraftIssue(answer) ==
    /\ import_pc = "assignees"
    /\ Len(calls) = Len(record.assignees)
    /\ calls' = Append(calls, Call("addProjectV2DraftIssue", DraftInput(assignee_ids),
                                   answer))
    /\ IF answer.kind = "raise"
          THEN /\ import_pc' = "raised"
               /\ import_result' = answer
               /\ UNCHANGED item_id
          ELSE /\ import_pc' = "field_map"
               /\ item_id' = answer.value
               /\ UNCHANGED import_result
    /\ UNCHANGED <<record, project_fields, assignee_ids, content_id, field_pos>>
    /\ UNCHANGED outside_import

\* Line 356: get_issue_id; its exception leaves import_item.
GetIssueId(answer) ==
    /\ import_pc = "get_issue"
    /\ calls' = Append(calls, Call("repository",
                                   [t |-> "lookup",
                                    number |-> record.issue_number,
                                    owner |-> split_repository(record.repository).owner,
                                    repo |-> split_repository(record.repository).repo],
                                   answer))
    /\ LET found == get_issue_id(answer)
       IN IF found.kind = "raise"
             THEN /\ import_pc' = "raised"
                  /\ import_result' = found
                  /\ UNCHANGED content_id
             ELSE /\ import_pc' = "attach"
                  /\ content_id' = found.value
                  /\ UNCHANGED import_result
    /\ UNCHANGED <<record, project_fields, assignee_ids, item_id, field_pos>>
    /\ UNCHANGED outside_import

\* Line 357: add_existing_item, the addProjectV2ItemById mutation.
AddExistingItem(answer) ==
    /\ import_pc = "attach"
    /\ calls' = Append(calls, Call("addProjectV2ItemById", content_id, answer))
    /\ IF answer.kind = "raise"
          THEN /\ import_pc' = "raised"
               /\ import_result' = answer
               /\ UNCHANGED item_id
          ELSE /\ import_pc' = "field_map"
               /\ item_id' = answer.value
               /\ UNCHANGED import_result
    /\ UNCHANGED <<record, project_fields, assignee_ids, content_id, field_pos>>
    /\ UNCHANGED outside_import

\* Line 363: the field map is built; a node without a name raises KeyError.
BuildFieldMap ==
    /\ import_pc = "field_map"
    /\ IF HasNamelessNode(project_fields)
          THEN /\ import_pc' = "raised"
               /\ import_result' = Raise("KeyError", Str("name"))
               /\ UNCHANGED field_pos
          ELSE /\ import_pc' = "fields"
               /\ field_pos' = 1
               /\ UNCHANGED import_result
    /\ UNCHANGED <<record, project_fields, assignee_ids, content_id, item_id, calls>>
    /\ UNCHANGED outside_import

\* Lines 373-405: a turn of the loop that issues no update.
SkipField ==
    /\ import_pc = "fields"
    /\ field_pos <= Len(FieldUpdates)
    /\ field_update(record, import_field_map(project_fields), field_pos) = NoUpdate
    /\ field_pos' = field_pos + 1
    /\ UNCHANGED <<record, project_fields, import_pc, assignee_ids, content_id, item_id,
                   calls, import_result>>
    /\ UNCHANGED outside_import

\* Lines 373-405: a turn of the loop that calls update_field_value; the
\* exception of its execute_graphql leaves import_item unless the NUMBER
\* branch catches it.
UpdateFieldValue(answer) ==
    /\ import_pc = "fields"
    /\ field_pos <= Len(FieldUpdates)
    /\ LET u == field_update(record, import_field_map(project_fields), field_pos)
       IN /\ u # NoUpdate
          /\ calls' = Append(calls, Call("updateProjectV2ItemFieldValue",
                                         update_variables(item_id, u), answer))
          /\ IF answer.kind = "raise" /\ ~update_error_caught(u, answer)
                THEN /\ import_pc' = "raised"
                     /\ import_result' = answer
                     /\ UNCHANGED field_pos
                ELSE /\ field_pos' = field_pos + 1
                     /\ UNCHANGED <<import_pc, import_result>>
    /\ UNCHANGED <<record, project_fields, assignee_ids, content_id, item_id>>
    /\ UNCHANGED outside_import

\* Line 408: return item_id.
ReturnItemId ==
    /\ import_pc = "fields"
    /\ field_pos > Len(FieldUpdates)
    /\ import_pc' = "done"
    /\ import_result' = Return(item_id)
    /\ UNCHANGED <<record, project_fields, assignee_ids, content_id, item_id, field_pos,
                   calls>>
    /\ UNCHANGED outside_import

\* The answers of a mutation: the id of the project item, or an error.
DraftAnswers == {Return(Str("PVTI_draft"))} \cup CallErrors
AttachAnswers == {Return(Str("PVTI_attached"))} \cup CallErrors
UpdateAnswers == {Return(EmptyDict)} \cup CallErrors

ImportItemNext ==
    \/ ChooseRoute
    \/ \E answer \in UserAnswers : LookupAssignee(answer)
    \/ \E answer \in DraftAnswers : CreateDraftIssue(answer)
    \/ \E answer \in RepositoryAnswers : GetIssueId(answer)
    \/ \E answer \in AttachAnswers : AddExistingItem(answer)
    \/ BuildFieldMap
    \/ SkipField
    \/ \E answer \in UpdateAnswers : UpdateFieldValue(answer)
    \/ ReturnItemId

SpecImportItem == ImportItemInit /\ [][ImportItemNext]_vars

----------------------------------------------------------------------------
(* main of the importer: the loop over the records, lines 550-570 *)

\* Most records a CSV file holds.
MaxRecords == 3

\* Largest configured import.batch_size explored; 0 is a configured value too.
MaxBatchSize == 2

\* The records of a run: a bare draft, a draft with every promoted field, a
\* reference to an issue, a draft with an assignee.
RunRecords ==
    { BareRecord,
      [BareRecord EXCEPT !.status = Str("High"), !.priority = Str("high"),
                         !.estimate = Str("3"), !.size = Str("M")],
      [BareRecord EXCEPT !.content_type = Str("issue"), !.repository = Str("o/r"),
                         !.issue_number = PyInt(7)],
      [BareRecord EXCEPT !.assignees = <<"ann">>] }

\* project_info.get("fields", {}) of a run: a board without and with an
\* iteration field.
RunBoards == {Fields(List(TypedBoard)), Fields(List(Append(TypedBoard, EmptyNode)))}

RunEvent(e, i) == [e |-> e, i |-> i]

\* Line 551: the run reaches the loop with the records read from the file.
RunInit ==
    /\ TransportIdle
    /\ item = Absent
    /\ task = [kind |-> "idle"]
    /\ ExportIdle
    /\ record = Absent
    /\ project_fields \in RunBoards
    /\ import_pc = "idle"
    /\ assignee_ids = <<>>
    /\ content_id = PyNone
    /\ item_id = PyNone
    /\ field_pos = 0
    /\ calls = <<>>
    /\ import_result = Running
    /\ \E n \in 0..MaxRecords : \E rs \in [1..n -> RunRecords] : run_items = rs
    /\ batch_size \in 0..MaxBatchSize
    /\ continue_on_error \in BOOLEAN
    /\ run_i = 0
    /\ success_count = 0
    /\ run_log = <<>>
    /\ run_pc = "loop"
    /\ report = Absent
    /\ StartIdle

\* Mutant: the next record is taken while import_item is still at work on the
\* record in hand.
StartRecord_Overlapping ==
    /\ run_pc \in {"loop", "importing"}
    /\ run_i < Len(run_items)
    /\ run_i' = run_i + 1
    /\ run_log' = Append(run_log, RunEvent("attempt", run_i + 1))
    /\ run_pc' = "importing"
    /\ record' = run_items[run_i + 1]
    /\ import_pc' = "route"
    /\ assignee_ids' = <<>>
    /\ content_id' = PyNone
    /\ item_id' = PyNone
    /\ field_pos' = 0
    /\ calls' = <<>>
    /\ import_result' = Running
    /\ UNCHANGED <<project_fields, run_items, batch_size, continue_on_error,
                   success_count, report>>
    /\ UNCHANGED outside_run

\* Lines 552-555: the next record of `enumerate(items, 1)` is handed to
\* import_item.
StartRecord ==
    /\ run_pc = "loop"
    /\ run_i < Len(run_items)
    /\ run_i' = run_i + 1
    /\ run_log' = Append(run_log, RunEvent("attempt", run_i + 1))
    /\ run_pc' = "importing"
    /\ record' = run_items[run_i + 1]
    /\ import_pc' = "route"
    /\ assignee_ids' = <<>>
    /\ content_id' = PyNone
    /\ item_id' = PyNone
    /\ field_pos' = 0
    /\ calls' = <<>>
    /\ import_result' = Running
    /\ UNCHANGED <<project_fields, run_items, batch_size, continue_on_error,
                   success_count, report>>
    /\ UNCHANGED outside_run

\* Line 555: a step of import_item for the record.
ImportItemStep ==
    /\ run_pc = "importing"
    /\ ImportItemNext

\* The locals of import_item are gone once it has returned or raised.
ImportItemLeft ==
    /\ record' = Absent
    /\ import_pc' = "idle"
    /\ assignee_ids' = <<>>
    /\ content_id' = PyNone
    /\ item_id' = PyNone
    /\ field_pos' = 0
    /\ calls' = <<>>
    /\ import_result' = Running
    /\ UNCHANGED project_fields

\* Line 559: the condition of the batch pause; with batch_size 0 the modulo
\* raises ZeroDivisionError instead.
pause_due(i) == batch_size # 0 /\ i % batch_size = 0 /\ i < Len(run_items)

\* What lines 556-568 add to the history for record i, given whether
\* import_item returned.
record_events(i, imported) ==
    (IF imported THEN <<RunEvent("imported", i)>> ELSE <<>>)
    \o (IF imported /\ pause_due(i) THEN <<RunEvent("pause", i)>> ELSE <<>>)
    \o (IF ~imported \/ batch_size = 0 THEN <<RunEvent("failed", i)>> ELSE <<>>)

\* Mutant: a failure ends the loop whatever continue_on_error is.
FinishRecord_StopsOnError ==
    /\ run_pc = "importing"
    /\ import_pc \in {"done", "raised"}
    /\ LET imported == import_pc = "done"
       IN /\ success_count' = IF imported THEN success_count + 1 ELSE success_count
          /\ run_log' = run_log \o record_events(run_i, imported)
          /\ run_pc' = IF ~imported \/ batch_size = 0 THEN "broken" ELSE "loop"
    /\ ImportItemLeft
    /\ UNCHANGED <<run_items, batch_size, continue_on_error, run_i, report>>
    /\ UNCHANGED outside_run

\* Mutant: a failure never ends the loop.
FinishRecord_GoesOn ==
    /\ run_pc = "importing"
    /\ import_pc \in {"done", "raised"}
    /\ LET imported == import_pc = "done"
       IN /\ success_count' = IF imported THEN success_count + 1 ELSE success_count
          /\ run_log' = run_log \o record_events(run_i, imported)
          /\ run_pc' = "loop"
    /\ ImportItemLeft
    /\ UNCHANGED <<run_items, batch_size, continue_on_error, run_i, report>>
    /\ UNCHANGED outside_run

\* Lines 556-568: the rest of the loop body once import_item has ended. When it
\* returned, the record is counted and the batch pause is made if it is due;
\* when it raised, or when line 559 raises, the except clause logs the failure
\* and either goes on or leaves the loop.
FinishRecord ==
    /\ run_pc = "importing"
    /\ import_pc \in {"done", "raised"}
    /\ LET imported == import_pc = "done"
       IN /\ success_count' = IF imported THEN success_count + 1 ELSE success_count
          /\ run_log' = run_log \o record_events(run_i, imported)
          /\ run_pc' = IF (~imported \/ batch_size = 0) /\ ~continue_on_error
                          THEN "broken" ELSE "loop"
    /\ ImportItemLeft
    /\ UNCHANGED <<run_items, batch_size, continue_on_error, run_i, report>>
    /\ UNCHANGED outside_run

\* Line 570: the closing message, after the last record or after break.
FinishRun ==
    /\ \/ run_pc = "loop" /\ run_i = Len(run_items)
       \/ run_pc = "broken"
    /\ report' = [success |-> success_count, total |-> Len(run_items)]
    /\ run_pc' = "end"
    /\ UNCHANGED <<run_items, batch_size, continue_on_error, run_i, success_count, run_log>>
    /\ UNCHANGED import_vars
    /\ UNCHANGED outside_run

RunNext ==
    \/ StartRecord
    \/ ImportItemStep
    \/ FinishRecord
    \/ FinishRun

SpecImportRun == RunInit /\ [][RunNext]_vars

----------------------------------------------------------------------------
(* parse_csv_row *)

\* A row of csv.DictReader: a cell is Absent when the file has no such
\* column, None when the line ends before the column, else a string.
Row(title, ctype, assignees, labels, status, repository, issue_number) ==
    [t |-> "dict", title |-> title, content_type |-> ctype, status |-> status,
     priority |-> Absent, size |-> Absent, estimate |-> Absent, assignees |-> assignees,
     repository |-> repository, issue_number |-> issue_number, labels |-> labels]

\* str.strip() of the strings used in cells.
Strip(s) ==
    CASE s = " " -> ""
      [] s = "  " -> ""
      [] s = " , " -> ","
      [] s = " 7 " -> "7"
      [] s = " T " -> "T"
      [] OTHER -> s

\* [a.strip() for a in s.split(",") if a.strip()] for the strings used in
\* the list cells.
split_list(s) ==
    CASE s = "" -> <<>>
      [] s = " " -> <<>>
      [] s = " , " -> <<>>
      [] s = "ann" -> <<"ann">>
      [] s = "bug" -> <<"bug">>
      [] s = "ann, bob" -> <<"ann", "bob">>
      [] s = "bob,,ann " -> <<"bob", "ann">>

\* int(s): the integer, or Absent for ValueError.
py_int(s) ==
    CASE s = "7" -> PyInt(7)
      [] s = " 7 " -> PyInt(7)
      [] s = "0" -> PyInt(0)
      [] OTHER -> Absent

\* Lines 414-415: row.get(key, "").split(","); None has no split.
list_cell(cell) ==
    IF cell = PyNone THEN Raise("AttributeError", Str("NoneType"))
    ELSE Return(split_list(Get(cell, Str("")).v))

\* Lines 418-423: the issue number, None when the cell is missing or empty or
\* is not an integer.
issue_number_of(cell) ==
    IF cell \in {Absent, PyNone} \/ cell = Str("") THEN PyNone
    ELSE Get(py_int(cell.v), PyNone)

\* parse_csv_row (lines 411-438): the ProjectItem of a row, or the exception
\* that leaves it. The labels are read but no field of the model keeps them.
parse_csv_row(r) ==
    LET assignees == list_cell(r.assignees)
        labels == list_cell(r.labels)
    IN IF assignees.kind = "raise" THEN assignees
       ELSE IF labels.kind = "raise" THEN labels
       ELSE IF r.title = Absent THEN Raise("KeyError", Str("title"))
       ELSE Return([ProjectItem(Get(r.content_type, Str("draft")), assignees.value,
                                Get(r.status, PyNone), Get(r.priority, PyNone),
                                Get(r.estimate, PyNone), Get(r.size, PyNone),
                                Get(r.repository, PyNone),
                                issue_number_of(r.issue_number))
                       EXCEPT !.title = r.title])

\* The cells of the rows explored.
TitleCells == {Absent, Str("T")}
TypeCells == {Absent, PyNone, Str(""), Str(" "), Str("draft"), Str("issue"), Str("Draft")}
ListCells == {Absent, PyNone, Str(""), Str(" , "), Str("ann"), Str("ann, bob"),
              Str("bob,,ann ")}
LabelCells == {Absent, PyNone, Str("bug")}
TextCells == {Absent, PyNone, Str(""), Str("High")}
NumberCells == {Absent, PyNone, Str(""), Str("7"), Str(" 7 "), Str("0"), Str("abc")}

CsvRowInit ==
    /\ TransportIdle
    /\ item = Absent
    /\ task = [kind |-> "idle"]
    /\ ExportIdle
    /\ ImportIdle
    /\ RunIdle
    /\ tool = "none"
    /\ args = Absent
    /\ config = Absent
    /\ project_info = Unbound
    /\ csv_file = Unbound
    /\ start_pc = "idle"
    /\ start_calls = <<>>
    /\ start_exit = PyNone
    /\ \E tt \in TitleCells, ct \in TypeCells, a \in ListCells, l \in LabelCells,
          st \in TextCells, n \in NumberCells :
          csv_row = Row(tt, ct, a, l, st, IF n = Absent THEN Absent ELSE Str("o/r"), n)
    /\ csv_item = Running
    /\ sheet_tasks = <<>>
    /\ sheet = Unbound

\* One call of parse_csv_row.
ParseCsvRow ==
    /\ csv_item = Running
    /\ csv_item' = parse_csv_row(csv_row)
    /\ UNCHANGED csv_row
    /\ UNCHANGED outside_csv

SpecCsvRow == CsvRowInit /\ [][ParseCsvRow]_vars

----------------------------------------------------------------------------
(* export_to_csv *)

\* Most tasks handed to export_to_csv.
MaxTasks == 2

\* Lines 517-521: the fixed columns.
fieldnames ==
    <<"id", "title", "content_type", "description", "status", "priority", "size",
      "estimate", "assignees", "labels", "milestone", "repository", "number", "url",
      "created_at", "updated_at", "closed_at", "state", "comments_count">>

\* The names of the custom fields explored, in the order sorted() gives them.
CustomNames == <<"epic", "sprint", "status", "title", "zhuangtai">>

\* A task as _parse_task_item leaves it after storing these custom fields and
\* promoting this status.
SheetTask(id, fields, status) ==
    [id |-> Str(id), kind |-> "task", title |-> Str("T"), number |-> PyInt(7),
     url |-> PyNone, state |-> PyNone, comments |-> <<>>, content_type |-> Str("Issue"),
     custom_fields |-> fields, status |-> status,
     priority |-> PyNone, size |-> PyNone, estimate |-> PyNone]

\* The custom_fields of the tasks explored: fields of other names than the
\* fixed columns, and fields named like a fixed column (the Title field of the
\* board, Status and its synonym).
SheetFields ==
    UNION { [names -> {Str("a"), Str("b")}] : names \in SUBSET {"epic", "sprint", "status"} }
    \cup
    { f \in UNION { [names -> {Str("a"), Str("b"), Str("T")}] :
                      names \in SUBSET {"status", "title", "zhuangtai"} } :
        \A n \in DOMAIN f : f[n] = Str("T") <=> n = "title" }

\* Lines 446-447: the status a task with these custom_fields can have: the
\* value stored last under one of the names of status, None without any.
PromotedStatus(fields) ==
    IF StatusNames \cap DOMAIN fields = {} THEN {PyNone}
    ELSE {fields[n] : n \in StatusNames \cap DOMAIN fields}

\* Lines 524-526: the names of the custom fields of all the tasks.
all_custom_fields(tasks) == UNION { DOMAIN tasks[i].custom_fields : i \in 1..Len(tasks) }

\* sorted(names), for names among CustomNames.
sorted(names) == SelectSeq(CustomNames, LAMBDA n : n \in names)

\* Lines 535-549: the value written in column `name` of the row of a task: the
\* custom field of that name when some task has one ('' when this task has
\* not), else the attribute. The attributes this model of a task does not keep
\* (description, assignees, labels, milestone, repository, the dates) are at
\* their defaults.
sheet_cell(t, custom, name) ==
    IF name \in custom
        THEN IF name \in DOMAIN t.custom_fields THEN t.custom_fields[name] ELSE Str("")
    ELSE IF name = "comments_count" THEN PyInt(Len(t.comments))
    ELSE IF name \in {"assignees", "labels"} THEN Str("")
    ELSE IF name \in {"description", "milestone", "repository", "created_at", "updated_at",
                      "closed_at"} THEN PyNone
    ELSE t[name]

\* export_to_csv (lines 511-551): no file for no tasks; else the header line
\* and one row per task, a value per column of the header.
export_to_csv(tasks) ==
    IF tasks = <<>> THEN Absent
    ELSE LET custom == all_custom_fields(tasks)
             header == fieldnames \o sorted(custom)
         IN [t |-> "sheet", header |-> header,
             rows |-> [i \in 1..Len(tasks) |->
                         [c \in 1..Len(header) |-> sheet_cell(tasks[i], custom, header[c])]]]

SheetInit ==
    /\ TransportIdle
    /\ item = Absent
    /\ task = [kind |-> "idle"]
    /\ ExportIdle
    /\ ImportIdle
    /\ RunIdle
    /\ tool = "none"
    /\ args = Absent
    /\ config = Absent
    /\ project_info = Unbound
    /\ csv_file = Unbound
    /\ start_pc = "idle"
    /\ start_calls = <<>>
    /\ start_exit = PyNone
    /\ csv_row = Absent
    /\ csv_item = Running
    /\ \E n \in 0..MaxTasks : \E fs \in [1..n -> SheetFields] :
          \E st \in [1..n -> {PyNone, Str("a"), Str("b")}] :
              /\ \A i \in 1..n : st[i] \in PromotedStatus(fs[i])
              /\ sheet_tasks = [i \in 1..n |-> SheetTask(ToString(i), fs[i], st[i])]
    /\ sheet = Unbound

\* One call of export_to_csv.
ExportToCsv ==
    /\ sheet = Unbound
    /\ sheet' = export_to_csv(sheet_tasks)
    /\ UNCHANGED sheet_tasks
    /\ UNCHANGED outside_sheet

SpecSheet == SheetInit /\ [][ExportToCsv]_vars

----------------------------------------------------------------------------
(* main of either tool, from the command line to its loop *)

\* argparse: an option that is not given is None; --token "" gives "".
ArgValues == {PyNone, Str(""), Str("arg")}
Args(token, project, dry_run) ==
    [t |-> "args", project |-> project, token |-> token, dry_run |-> dry_run]

\* The `github` section of a configuration file: its keys are missing, null,
\* empty or set.
SectionValues == {Absent, PyNone, Str(""), Str("cfg")}
Github(token, default_project_id) ==
    [t |-> "dict", token |-> token, default_project_id |-> default_project_id]

\* `config`: {} without --config; None when yaml.safe_load reads an empty
\* file; else a dict whose `github` is missing, null or a section.
Config(github) == [t |-> "dict", github |-> github]
Configs ==
    {PyNone, Config(Absent), Config(PyNone)} \cup
    { Config(Github(tk, pr)) : tk \in SectionValues, pr \in SectionValues }

\* config.get('github', {}).get(key): None.get raises AttributeError.
config_github_get(cfg, key) ==
    IF cfg = PyNone \/ cfg.github = PyNone
        THEN Raise("AttributeError", Str("NoneType"))
    ELSE IF cfg.github = Absent THEN Return(PyNone)
    ELSE Return(Get(IF key = "token" THEN cfg.github.token
                    ELSE cfg.github.default_project_id, PyNone))

\* `arg or config.get('github', {}).get(key)`: the right operand is evaluated
\* only when the left one is falsy.
arg_or_config(arg, cfg, key) ==
    IF Truthy(arg) THEN Return(arg) ELSE config_github_get(cfg, key)

StartInit ==
    /\ TransportIdle
    /\ item = Absent
    /\ task = [kind |-> "idle"]
    /\ ExportIdle
    /\ ImportIdle
    /\ RunIdle
    /\ tool \in {"exporter", "importer"}
    /\ \E tk \in ArgValues, pr \in ArgValues, dry \in BOOLEAN : args = Args(tk, pr, dry)
    /\ config \in Configs
    /\ project_info = Unbound
    /\ csv_file = Unbound
    /\ start_pc = "start"
    /\ start_calls = <<>>
    /\ start_exit = PyNone
    /\ csv_row = Absent
    /\ csv_item = Running
    /\ sheet_tasks = <<>>
    /\ sheet = Unbound

\* Mutant: the project id is not checked.
ResolveCredentials_TokenOnly ==
    /\ start_pc = "start"
    /\ LET token == arg_or_config(args.token, config, "token")
           project_id == arg_or_config(args.project, config, "default_project_id")
           fails == \/ token.kind = "raise" \/ project_id.kind = "raise"
                    \/ ~Truthy(token.value)
       IN /\ start_pc' = IF fails THEN "exit" ELSE "client"
          /\ start_exit' = IF fails THEN PyInt(1) ELSE start_exit
    /\ UNCHANGED <<tool, args, config, project_info, csv_file, start_calls>>
    /\ UNCHANGED <<run_vars, outside_start>>

\* Importer lines 501-510, exporter lines 660-669: the token and the project
\* id are taken from the command line or else from the configuration; the
\* process exits with status 1 when either is missing, and also when
\* config.get raises, which nothing catches.
ResolveCredentials ==
    /\ start_pc = "start"
    /\ LET token == arg_or_config(args.token, config, "token")
           project_id == arg_or_config(args.project, config, "default_project_id")
           fails == \/ token.kind = "raise" \/ project_id.kind = "raise"
                    \/ ~Truthy(token.value) \/ ~Truthy(project_id.value)
       IN /\ start_pc' = IF fails THEN "exit" ELSE "client"
          /\ start_exit' = IF fails THEN PyInt(1) ELSE start_exit
    /\ UNCHANGED <<tool, args, config, project_info, csv_file, start_calls>>
    /\ UNCHANGED <<run_vars, outside_start>>

\* Exporter line 677: get_project_tasks sends its first query.
ExporterFetches ==
    /\ start_pc = "client"
    /\ tool = "exporter"
    /\ start_calls' = Append(start_calls, [op |-> "items", answer |-> Running])
    /\ start_pc' = "export"
    /\ UNCHANGED <<tool, args, config, project_info, csv_file, start_exit>>
    /\ UNCHANGED <<run_vars, outside_start>>

\* The node the project query returns. A node that is not a ProjectV2 matches
\* no fragment of the query and comes back as an empty dict.
Project(fields) == [t |-> "dict", title |-> Str("P"), fields |-> fields]
ProjectData(node) == [t |-> "dict", node |-> node]

\* What execute_graphql gives get_project_info: an error, None (a body whose
\* `data` is null), or data whose `node` is missing, null, empty or a project.
ProjectAnswers ==
    CallErrors \cup {Return(PyNone)} \cup
    { Return(ProjectData(nd)) :
        nd \in {Absent, PyNone, EmptyDict, Project(Fields(List(TypedBoard)))} }

\* Lines 145-152 of get_project_info, for the answer of its query.
get_project_info(answer) ==
    IF answer.kind = "raise" THEN answer
    ELSE IF answer.value = PyNone THEN Raise("AttributeError", Str("NoneType"))
    ELSE IF answer.value.node \in {Absent, PyNone, EmptyDict}
        THEN Raise("Exception", Str("project not found"))
    ELSE Return(answer.value.node)

\* Importer lines 514-519: the project is looked up; an exception goes to the
\* except clause of line 572, which exits with status 1.
GetProjectInfo(answer) ==
    /\ start_pc = "client"
    /\ tool = "importer"
    /\ start_calls' = Append(start_calls, [op |-> "project", answer |-> answer])
    /\ LET project == get_project_info(answer)
       IN IF project.kind = "raise"
             THEN /\ start_pc' = "exit"
                  /\ start_exit' = PyInt(1)
                  /\ UNCHANGED project_info
             ELSE /\ start_pc' = "csv"
                  /\ project_info' = project.value
                  /\ UNCHANGED start_exit
    /\ UNCHANGED <<tool, args, config, csv_file>>
    /\ UNCHANGED <<run_vars, outside_start>>

\* Most rows a CSV file holds.
MaxRows == 2

\* A CSV file: the column names of its first line, in order, and the rows
\* DictReader makes of its lines. An empty file has no first line, and
\* reader.fieldnames is None.
CsvFile(columns, rows) == [t |-> "csv", header |-> TRUE, rows |-> rows, columns |-> columns]
EmptyFile == [t |-> "csv", header |-> FALSE, rows |-> <<>>, columns |-> <<>>]
ColumnSet(file) == {file.columns[i] : i \in 1..Len(file.columns)}

\* The row DictReader makes of a line of k cells under these columns: a
\* column the line does not reach is None, a column the file lacks is absent.
LineRow(columns, k, title) ==
    LET cell(name, text) ==
            IF \E i \in 1..Len(columns) : columns[i] = name
                THEN IF \E i \in 1..k : columns[i] = name THEN Str(text) ELSE PyNone
                ELSE Absent
    IN Row(cell("title", title), cell("content_type", "draft"), cell("assignees", "ann"),
           Absent, Absent, Absent, Absent)

Headers ==
    { <<"title", "content_type">>, <<"content_type", "title">>, <<"title">>,
      <<"content_type">>, <<"title", "content_type", "assignees">> }

\* The title cells of a file: an empty one, a blank one, two titles.
FileTitles == {"", " ", "T", "U"}

\* The rows of a file with these columns: lines of one cell or more (DictReader
\* skips the empty lines). The files with an assignees column hold one title.
RowsOf(columns) ==
    { LineRow(columns, k, tt) :
        k \in 1..Len(columns),
        tt \in IF Len(columns) > 2 THEN {"T"} ELSE FileTitles }

\* config.get('csv', {}).get('required_columns', ['title', 'content_type']);
\* the configurations explored have no `csv` section.
required_columns == {"title", "content_type"}

\* How the loop over the rows ends (lines 535-540), from row k on with `items`
\* so far: the items, or the exception of a row.
RECURSIVE read_rows(_, _, _)
read_rows(rows, k, sofar) ==
    IF k > Len(rows) THEN Return(sofar)
    ELSE LET title == Get(rows[k].title, Str(""))
         IN IF title = PyNone THEN Raise("AttributeError", Str("NoneType"))
            ELSE IF Strip(title.v) = "" THEN read_rows(rows, k + 1, sofar)
            ELSE LET parsed == parse_csv_row(rows[k])
                 IN IF parsed.kind = "raise" THEN parsed
                    ELSE read_rows(rows, k + 1, Append(sofar, parsed.value))

\* Lines 525-540 for a file: the items read, or the exception that ends the
\* run. Absent is a path with no file.
read_csv(cfg, file) ==
    IF cfg = PyNone THEN Raise("AttributeError", Str("NoneType"))
    ELSE IF file = Absent THEN Raise("FileNotFoundError", Str("csv"))
    ELSE IF ~file.header THEN Raise("TypeError", Str("NoneType"))
    ELSE IF required_columns \ ColumnSet(file) # {}
        THEN Raise("Exception", Str("missing columns"))
    ELSE read_rows(file.rows, 1, <<>>)

\* Mutant: a file without the required columns is read all the same.
ReadCsv_AnyColumns(file) ==
    /\ start_pc = "csv"
    /\ csv_file' = file
    /\ LET read == IF config = PyNone \/ file = Absent \/ ~file.header
                      THEN read_csv(config, file)
                      ELSE read_rows(file.rows, 1, <<>>)
       IN IF read.kind = "raise"
             THEN /\ start_pc' = "exit"
                  /\ start_exit' = PyInt(1)
                  /\ UNCHANGED run_items
             ELSE /\ start_pc' = "read"
                  /\ run_items' = read.value
                  /\ UNCHANGED start_exit
    /\ UNCHANGED <<tool, args, config, project_info, start_calls>>
    /\ UNCHANGED <<batch_size, continue_on_error, run_i, success_count, run_log, run_pc,
                   report>>
    /\ UNCHANGED outside_start

\* Lines 521-542: the CSV file is read into `items`; an exception goes to the
\* except clause of line 572, which exits with status 1.
ReadCsv(file) ==
    /\ start_pc = "csv"
    /\ csv_file' = file
    /\ LET read == read_csv(config, file)
       IN IF read.kind = "raise"
             THEN /\ start_pc' = "exit"
                  /\ start_exit' = PyInt(1)
                  /\ UNCHANGED run_items
             ELSE /\ start_pc' = "read"
                  /\ run_items' = read.value
                  /\ UNCHANGED start_exit
    /\ UNCHANGED <<tool, args, config, project_info, start_calls>>
    /\ UNCHANGED <<batch_size, continue_on_error, run_i, success_count, run_log, run_pc,
                   report>>
    /\ UNCHANGED outside_start

\* Lines 544-548: with --dry-run the items are listed and main returns.
DryRun ==
    /\ start_pc = "read"
    /\ args.dry_run
    /\ start_pc' = "exit"
    /\ start_exit' = PyInt(0)
    /\ UNCHANGED <<tool, args, config, project_info, csv_file, start_calls>>
    /\ UNCHANGED <<run_vars, outside_start>>

\* Lines 550-552: the loop over the items begins.
EnterLoop ==
    /\ start_pc = "read"
    /\ ~args.dry_run
    /\ start_pc' = "loop"
    /\ run_pc' = "loop"
    /\ project_fields' = project_info.fields
    /\ UNCHANGED <<tool, args, config, project_info, csv_file, start_calls, start_exit>>
    /\ UNCHANGED <<run_items, batch_size, continue_on_error, run_i, success_count, run_log,
                   report>>
    /\ UNCHANGED <<record, import_pc, assignee_ids, content_id, item_id, field_pos, calls,
                   import_result>>
    /\ UNCHANGED <<transport_vars, parse_vars, export_vars, others>>

StartNext ==
    \/ ResolveCredentials
    \/ ExporterFetches
    \/ \E answer \in ProjectAnswers : GetProjectInfo(answer)
    \/ \E columns \in Headers : \E n \in 0..MaxRows : \E rows \in [1..n -> RowsOf(columns)] :
          ReadCsv(CsvFile(columns, rows))
    \/ ReadCsv(Absent)
    \/ ReadCsv(EmptyFile)
    \/ DryRun
    \/ EnterLoop

SpecStart == StartInit /\ [][StartNext]_vars

----------------------------------------------------------------------------
(* Properties of execute_graphql *)

Posts == Cardinality({i \in 1..Len(events) : events[i].op = "post"})
Sleeps == Cardinality({i \in 1..Len(events) : events[i].op = "sleep"})
Faults == Cardinality({i \in 1..Len(events) : events[i].result = "fault"})
AllPostsFault == \A i \in 1..Len(events) : events[i].op = "post" => events[i].result = "fault"
LastEvent == events[Len(events)]

\* C1: with max_retries = N >= 1 and a transport that raises a connectivity
\* fault on every attempt, the call makes exactly N posts and then raises the
\* fatal error carrying the last fault's message; there is never an (N+1)-th
\* post and the call never returns a result.
C1_RetryBound ==
    max_retries >= 1 =>
        /\ Posts <= max_retries
        /\ AllPostsFault => outcome.kind # "return"
        /\ (AllPostsFault /\ pc = "done") =>
              /\ Posts = max_retries
              /\ LastEvent.op = "post"
              /\ outcome = Raise("APIRequestFailed", Str(LastEvent.msg))

C1_Witness ==
    /\ max_retries = 3
    /\ pc = "done"
    /\ AllPostsFault
    /\ Posts = 3
    /\ outcome = Raise("APIRequestFailed", Str("Timeout"))

\* The errors execute_graphql raises on purpose: the transport gave up, the
\* status was not 200, the body had an `errors` key.
DescriptiveErrors == {"APIRequestFailed", "GraphQLRequestFailed", "GraphQLError"}

\* C33: for every configured max_retries, 0 and negative values included, a
\* call of execute_graphql that has ended made at least one post and either
\* returned the data or raised one of the descriptive errors. (Stated for the
\* calls that received no response or one with a JSON body.)
C33_DefinedOutcomesOnly ==
    (pc = "done" /\ (response = Unbound \/ response.body # NotJson)) =>
        /\ Posts >= 1
        /\ \/ outcome.kind = "return"
           \/ outcome.kind = "raise" /\ outcome.error \in DescriptiveErrors

\* C2: when the transport faults on the first k < max_retries attempts and then
\* answers, the call makes exactly k+1 posts and sleeps exactly k times, every
\* post after the first comes right after exactly one sleep, no sleep follows
\* the last post (answered or finally failing), and a successful answer's data
\* is what the call returns.
C2_RetryPauses ==
    max_retries >= 1 =>
        /\ \A i \in 1..Len(events) :
              /\ (events[i].op = "post" /\ i > 1) =>
                    /\ events[i-1].op = "sleep"
                    /\ i > 2 /\ events[i-2].op = "post"
              /\ events[i].op = "sleep" =>
                    /\ i > 1 /\ events[i-1].op = "post"
                    /\ events[i-1].result = "fault"
        /\ pc \in {"check", "done"} => (events # <<>> /\ LastEvent.op = "post")
        /\ response # Unbound =>
              /\ Faults < max_retries
              /\ Posts = Faults + 1
              /\ Sleeps = Faults
        /\ ( /\ pc = "done"
             /\ response # Unbound
             /\ response.status_code = 200
             /\ response.body # NotJson
             /\ response.body.errors = Absent
             /\ response.body.data # Absent )
           => outcome = Return(response.body.data)

C2_Witness ==
    /\ max_retries = 3
    /\ pc = "done"
    /\ Faults = 2
    /\ Posts = 3
    /\ Sleeps = 2
    /\ outcome = Return(DataDict("d1"))

\* A received response the server rejected: a non-200 status, or a JSON body
\* that has an `errors` array.
Rejected(resp) ==
    \/ resp.status_code # 200
    \/ (resp.body # NotJson /\ resp.body.errors # Absent)

\* C3: once a post has received a response with a non-200 status or a body with
\* an `errors` array, that post is the last event of the call (no further post,
\* no pause), whatever attempts remain, and the call ends by raising.
C3_NoRetryOnRejection ==
    (response # Unbound /\ Rejected(response)) =>
        /\ pc \in {"check", "done"}
        /\ LastEvent = PostResponseEvent
        /\ Cardinality({i \in 1..Len(events) : events[i].result = "response"}) = 1
        /\ pc = "done" => outcome.kind = "raise"

C3_Witness ==
    /\ max_retries = 3
    /\ pc = "done"
    /\ response # Unbound
    /\ response.status_code = 401
    /\ Posts = 1
    /\ Sleeps = 0
    /\ outcome.kind = "raise"

\* C4, as claimed: a 200 response with a `data` object and an `errors` key that
\* is absent or empty returns the data; a non-200 status or a populated `errors`
\* array raises; nothing else happens.
C4_AsClaimed ==
    (pc = "done" /\ response # Unbound /\ response.body # NotJson) =>
        /\ ( /\ response.status_code = 200
             /\ response.body.data = DataDict("d1")
             /\ response.body.errors \in {Absent, List(<<>>)} )
           => outcome = Return(response.body.data)
        /\ ( \/ response.status_code # 200
             \/ (response.body.errors # Absent /\ response.body.errors.items # <<>>) )
           => outcome.kind = "raise"
        /\ outcome.kind \in {"return", "raise"}

\* C4, amended: for a received response with a JSON object body, the call
\* returns the body's `data` value (an empty dict when the key is missing) if
\* the status is 200 and the body has no `errors` key, and raises the status
\* error or the GraphQL error in every other case, an empty `errors` array
\* included.
C4_ResponseOutcomes ==
    (pc = "done" /\ response # Unbound /\ response.body # NotJson) =>
        IF response.status_code = 200 /\ response.body.errors = Absent
            THEN outcome = Return(IF response.body.data = Absent
                                    THEN EmptyDict ELSE response.body.data)
            ELSE /\ outcome.kind = "raise"
                 /\ outcome.error \in {"GraphQLRequestFailed", "GraphQLError"}

C4_Witness ==
    /\ pc = "done"
    /\ response # Unbound
    /\ response.status_code = 200
    /\ response.body # NotJson
    /\ response.body.errors = List(<<>>)
    /\ response.body.data = DataDict("d1")
    /\ outcome = Raise("GraphQLError", List(<<>>))

----------------------------------------------------------------------------
(* Properties of _parse_task_item *)

HasContent == ~ContentFalsy(item.content)
Parsed == task # Pending

\* C6: for an item whose content has a non-null number, the record's
\* content_type is PullRequest exactly when the url contains "/pull/" at any
\* position, and Issue otherwise, whatever other keys the content carries.
C6_ContentTypeByUrl ==
    (Parsed /\ HasContent /\ item.content.number.t = "int") =>
        /\ task.kind = "task"
        /\ task.content_type =
              IF item.content.url.t = "str" /\ Find(item.content.url.v, PullMarker) >= 0
                  THEN "PullRequest"
                  ELSE "Issue"

\* C7: an item with content and no number (the key missing or null) gives a
\* record whose content_type is DraftIssue; an item with no content gives no
\* record; every item with content gives exactly one record.
C7_DraftAndDropped ==
    Parsed =>
        /\ ~HasContent => task = NoRecord
        /\ HasContent => task.kind = "task"
        /\ (HasContent /\ item.content.number \in {Absent, PyNone}) =>
              task.content_type = "DraftIssue"

\* The value a raw field value carries: its first populated slot (not null,
\* not empty) in the order text, number as a string, name, date, title; PyNone
\* when no slot is populated.
PopulatedValue(fv) ==
    IF Truthy(fv.text) THEN fv.text
    ELSE IF fv.number.t = "int" THEN Str(ToString(fv.number.v))
    ELSE IF Truthy(fv.name) THEN fv.name
    ELSE IF Truthy(fv.date) THEN fv.date
    ELSE IF Truthy(fv.title) THEN fv.title
    ELSE PyNone

\* The positions of the item's raw values whose field name, lower-cased, is n.
EntriesNamed(n) ==
    {i \in 1..Len(item.fieldValues) :
        /\ item.fieldValues[i].field # Absent
        /\ Lower(item.fieldValues[i].field.name.v) = n}

\* The non-empty values the item carries for the fields named in `names`.
ValuesNamed(names) ==
    {PopulatedValue(item.fieldValues[i]) : i \in UNION {EntriesNamed(n) : n \in names}}
        \ {PyNone}

PromotedAs(attribute, names) ==
    IF ValuesNamed(names) = {} THEN attribute = PyNone
    ELSE attribute \in ValuesNamed(names)

\* A raw value as the API shapes it: at most one of the value slots is present.
OneSlot(fv) ==
    Cardinality({k \in {"text", "number", "name", "date", "title"} : fv[k] # Absent}) <= 1

\* C8: after the field values of an item are processed, each promoted attribute
\* is a non-empty value of a field named by one of its synonyms when there is
\* one, and is unset (None) when every such field is absent or empty. (Stated
\* for the items whose raw values have at most one slot each.)
C8_Promotion ==
    (task.kind = "task" /\ \A i \in 1..Len(item.fieldValues) : OneSlot(item.fieldValues[i])) =>
        /\ PromotedAs(task.status, StatusNames)
        /\ PromotedAs(task.priority, PriorityNames)
        /\ PromotedAs(task.size, SizeNames)
        /\ PromotedAs(task.estimate, EstimateNames)

LowerNames == {Lower(n) : n \in FieldNames}
MaxOf(S) == CHOOSE i \in S : \A j \in S : j <= i

\* C9, as claimed: when two or more raw values of an item name the same field
\* (lower-cased), custom_fields holds under that name the value of the last of
\* them in list order.
C9_AsClaimed ==
    task.kind = "task" =>
        \A n \in LowerNames :
            Cardinality(EntriesNamed(n)) >= 2 =>
                /\ n \in DOMAIN task.custom_fields
                /\ task.custom_fields[n] =
                      field_value_of(item.fieldValues[MaxOf(EntriesNamed(n))])

\* C9, amended: when two or more raw values of an item name the same field
\* (lower-cased), custom_fields holds under that name the value extracted from
\* the last of them whose extracted value is non-empty (an empty or null value
\* never overwrites an earlier one), and has no entry under that name when
\* none of them has a non-empty value.
C9_LastNonEmptyWins ==
    task.kind = "task" =>
        \A n \in LowerNames :
            Cardinality(EntriesNamed(n)) >= 2 =>
                LET live == {i \in EntriesNamed(n) :
                                Truthy(field_value_of(item.fieldValues[i]))}
                IN IF live = {}
                      THEN n \notin DOMAIN task.custom_fields
                      ELSE /\ n \in DOMAIN task.custom_fields
                           /\ task.custom_fields[n] =
                                 field_value_of(item.fieldValues[MaxOf(live)])

C9_Witness ==
    /\ task.kind = "task"
    /\ Len(item.fieldValues) = 2
    /\ item.fieldValues[1] = RawValue(FieldRef("Status"), Str("a"), Absent, Absent, Absent, Absent)
    /\ item.fieldValues[2] = RawValue(FieldRef("status"), Str(""), Absent, Absent, Absent, Absent)
    /\ task.custom_fields["status"] = Str("a")

\* C29: a raw value with a field back-reference stores, under the field's
\* lower-cased name, its first populated slot in the order text, number as a
\* string, option name, date, iteration title; a slot that is null or empty is
\* not populated, so it hides no later slot and stores no value; and nothing
\* is stored for a raw value without a back-reference. (Stated for the names
\* one raw value of the item carries.)
C29_FirstPopulatedSlot ==
    task.kind = "task" =>
        /\ \A n \in LowerNames :
              Cardinality(EntriesNamed(n)) = 1 =>
                LET value == PopulatedValue(item.fieldValues[MaxOf(EntriesNamed(n))])
                IN IF value = PyNone
                      THEN n \notin DOMAIN task.custom_fields
                      ELSE /\ n \in DOMAIN task.custom_fields
                           /\ task.custom_fields[n] = value
        /\ \A n \in DOMAIN task.custom_fields : EntriesNamed(n) # {}

\* A promoted attribute that is set has an entry of custom_fields under one of
\* its synonym names with the same value.
Backed(attribute, names) ==
    attribute # PyNone =>
        \E n \in names \cap DOMAIN task.custom_fields : task.custom_fields[n] = attribute

\* C30: in every record of _parse_task_item, each promoted attribute (status,
\* priority, size, estimate) that is set equals the custom_fields entry under
\* one of its synonym names, whatever the order of the field values and also
\* with several synonym-named fields on the item.
C30_PromotedInCustomFields ==
    task.kind = "task" =>
        /\ Backed(task.status, StatusNames)
        /\ Backed(task.priority, PriorityNames)
        /\ Backed(task.size, SizeNames)
        /\ Backed(task.estimate, EstimateNames)

\* Two synonym-named fields on one item, the later one promoted.
C30_Witness ==
    /\ task.kind = "task"
    /\ Len(item.fieldValues) = 2
    /\ item.fieldValues[1] = TextValue("zhuangtai", Str("a"))
    /\ item.fieldValues[2] = TextValue("Status", Str("b"))
    /\ task.status = Str("b")
    /\ task.custom_fields["status"] = Str("b")
    /\ task.custom_fields["zhuangtai"] = Str("a")

InputComments == Get(item.content.comments, List(<<>>)).items

RECURSIVE KeptComments(_)
KeptComments(cs) ==
    IF cs = <<>> THEN <<>>
    ELSE IF Truthy(Head(cs).body) THEN <<Head(cs)>> \o KeptComments(Tail(cs))
    ELSE KeptComments(Tail(cs))

HasDisplayName(c) ==
    /\ c.author # Absent
    /\ c.author # PyNone
    /\ Truthy(c.author.name)

\* C10: for an item with content, the record's comments are the input comments
\* with a non-empty body, in their order; a kept comment whose author is
\* missing, null or without a name has the author name ""; and no author makes
\* the parsing fail.
C10_Comments ==
    (Parsed /\ HasContent /\ content_type(item.content).kind = "ok") =>
        /\ task.kind = "task"
        /\ LET kept == KeptComments(InputComments)
           IN /\ Len(task.comments) = Len(kept)
              /\ \A i \in 1..Len(kept) :
                    /\ task.comments[i].id = kept[i].id
                    /\ task.comments[i].body = kept[i].body
                    /\ ~HasDisplayName(kept[i]) => task.comments[i].author.name = Str("")

----------------------------------------------------------------------------
(* Properties of get_project_tasks *)

RECURSIVE ItemsOf(_)
ItemsOf(b) == IF b = <<>> THEN <<>> ELSE Head(b).items \o ItemsOf(Tail(b))

RECURSIVE IdsWithContent(_)
IdsWithContent(items) ==
    IF items = <<>> THEN <<>>
    ELSE IF ContentFalsy(Head(items).content) THEN IdsWithContent(Tail(items))
    ELSE <<Head(items).id>> \o IdsWithContent(Tail(items))

\* Every page that is not the last reports a cursor the next request can carry.
ProperCursors == \A i \in 1..(Len(board) - 1) : Truthy(board[i].endCursor)

\* C5: for a board of N+1 pages, the first N reporting hasNextPage and the last
\* not, a run whose fetches all succeed ends by returning after exactly N+1
\* fetches, with one record for every item with content of every page, in page
\* order and in item order within a page. (Stated for the boards whose pages
\* report proper cursors.)
C5_Pagination ==
    ( /\ ProperCursors
      /\ export_pc \in {"done", "raised"}
      /\ \A i \in 1..Len(fetches) : fetches[i].result = "page" )
    => /\ export_pc = "done"
       /\ Len(fetches) = Len(board)
       /\ [i \in 1..Len(all_tasks) |-> all_tasks[i].id] = IdsWithContent(ItemsOf(board))

\* A fetch of the run failed: execute_graphql raised, or the data had no node.
FetchFailed == \E i \in 1..Len(fetches) : fetches[i].result # "page"

\* C11: in an export run, once a page fetch has failed (the transport gave up,
\* the API rejected the request, or the response had no project node),
\* get_project_tasks returns no records and the run ends with a non-zero exit
\* and no output file, however many pages were fetched before; and an item
\* without content never makes the parsing of a page fail.
C11_FetchFailureIsFatal ==
    /\ FetchFailed =>
          /\ export_pc = "raised"
          /\ output_file = Absent
          /\ exit_code \in {PyNone, PyInt(1)}
    /\ (export_pc = "raised" /\ ~FetchFailed) =>
          \E i \in 1..Len(board) : \E j \in 1..Len(board[i].items) :
              /\ ~ContentFalsy(board[i].items[j].content)
              /\ _parse_task_item(board[i].items[j], NoFieldMap) = ParseError

C11_Witness ==
    /\ Len(fetches) = 2
    /\ fetches[1].result = "page"
    /\ fetches[2].result = "raise"
    /\ all_tasks # <<>>
    /\ \E i \in 1..Len(board[1].items) : ContentFalsy(board[1].items[i].content)
    /\ output = Str(".json")
    /\ output_file = Absent
    /\ exit_code = PyInt(1)

\* The page a fetch of the history asked for and, when it returned, received.
FetchedPage(i) == ServerPage(board, fetches[i].cursor)
PageFetches == {i \in 1..Len(fetches) : fetches[i].result = "page"}

\* C27: the first fetch carries no cursor; a later fetch follows a page that
\* reported hasNextPage and carries the endCursor of that page; a run that
\* has not raised is done exactly when a page reported hasNextPage false; and
\* no page is requested twice in a run, also when a page reports hasNextPage
\* with a null or empty endCursor.
C27_CursorChain ==
    /\ fetches # <<>> => fetches[1].cursor = Absent
    /\ \A i \in 2..Len(fetches) :
          /\ i - 1 \in PageFetches
          /\ FetchedPage(i - 1).hasNextPage
          /\ Truthy(FetchedPage(i - 1).endCursor) =>
                fetches[i].cursor = FetchedPage(i - 1).endCursor
    /\ export_pc # "raised" =>
          (export_pc = "done" <=>
             (fetches # <<>> /\ ~FetchedPage(Len(fetches)).hasNextPage))
    /\ \A i, j \in 1..Len(fetches) : fetches[i].cursor = fetches[j].cursor => i = j

\* C28: the id -> field catalog of an export run is built once, from the first
\* page before its items are parsed, and fetching a later page neither
\* replaces nor changes it.
C28_CatalogBuiltOnce ==
    [][ /\ field_map = Unbound =>
              field_map' \in {Unbound, build_field_map(board[1].fields)}
        /\ field_map # Unbound => field_map' = field_map ]_vars

----------------------------------------------------------------------------
(* Properties of import_item *)

\* The positions in the history of the calls of one operation.
CallsOf(op) == {i \in 1..Len(calls) : calls[i].op = op}

\* import_item has ended, by returning or by raising.
ImportEnded == import_pc \in {"done", "raised"}

\* The creation or attach step has given the id of the project item.
ItemCreated == item_id # PyNone

\* C12: a record with both repository and issue_number populated is resolved
\* by attach-existing (the issue/PR lookup first, addProjectV2ItemById after it,
\* never a create-draft mutation), every other record by create-draft (never
\* a lookup or an attach), whatever its content_type, "draft" included.
C12_RouteByReference ==
    calls # <<>> =>
        IF Truthy(record.repository) /\ Truthy(record.issue_number)
            THEN /\ calls[1].op = "repository"
                 /\ Len(calls) >= 2 => calls[2].op = "addProjectV2ItemById"
                 /\ CallsOf("addProjectV2DraftIssue") = {}
            ELSE /\ CallsOf("repository") = {}
                 /\ CallsOf("addProjectV2ItemById") = {}

\* The data of the lookup names an issue, or a pull request.
HasIssue(d) == d \notin {Absent, PyNone} /\ d.issue # PyNone
HasPullRequest(d) == d \notin {Absent, PyNone} /\ d.pullRequest # PyNone

\* C13: when the lookup of get_issue_id returns, the content id is the id of
\* the issue if there is one, otherwise the id of the pull request if there is
\* one, and otherwise import_item raises a "not found" error; and when the
\* lookup ends in an error no attach and no field update follows it.
C13_IssueThenPullRequest ==
    \A i \in CallsOf("repository") :
        /\ calls[i].result.kind = "return" =>
              LET d == calls[i].result.value
              IN IF HasIssue(d) THEN content_id = d.issue.id
                 ELSE IF HasPullRequest(d) THEN content_id = d.pullRequest.id
                 ELSE import_result = Raise("NotFound", Str("Issue/PR"))
        /\ import_result.kind = "raise" /\ content_id = PyNone => Len(calls) = i

\* The ids get_user_id gave for the lookups of a history, in order.
RECURSIVE resolved_ids(_)
resolved_ids(cs) ==
    IF cs = <<>> THEN <<>>
    ELSE IF Head(cs).op = "user" /\ Head(cs).result = Return(Str("found"))
        THEN <<UserId(Head(cs).arg.v)>> \o resolved_ids(Tail(cs))
    ELSE resolved_ids(Tail(cs))

\* C14: in create_draft_issue every assignee is looked up once, in input order;
\* whatever the lookups end with (found, not found, an error), the create-draft
\* mutation is issued exactly once, after them, with the ids of the logins that
\* resolved, in input order.
C14_DraftDespiteLookups ==
    creates_draft(record) =>
        /\ \A i \in CallsOf("user") :
              i <= Len(record.assignees) /\ calls[i].arg = Str(record.assignees[i])
        /\ Cardinality(CallsOf("addProjectV2DraftIssue")) <= 1
        /\ \A i \in CallsOf("addProjectV2DraftIssue") :
              /\ i = Len(record.assignees) + 1
              /\ calls[i].arg = DraftInput(resolved_ids(SubSeq(calls, 1, i - 1)))
        /\ import_pc \notin {"route", "assignees"} => CallsOf("addProjectV2DraftIssue") # {}

C14_Witness ==
    /\ import_pc = "done"
    /\ record.assignees = <<"ann", "bob">>
    /\ calls[1].result = Raise("APIRequestFailed", Str("Timeout"))
    /\ calls[2].result = Return(Str("found"))
    /\ calls[3] = Call("addProjectV2DraftIssue", DraftInput(<<UserId("bob")>>),
                       Return(Str("PVTI_draft")))

\* The board has a field whose lower-cased name is n.
BoardHasField(n) ==
    \E i \in 1..Len(FieldNodes(project_fields)) :
        /\ FieldNodes(project_fields)[i].name # Absent
        /\ Lower(FieldNodes(project_fields)[i].name.v) = n

\* The k-th promoted field has nothing to update: the record's value is empty
\* or absent, or the board has no field of that name.
NothingToUpdate(k) ==
    \/ ~Truthy(record[FieldUpdates[k]])
    \/ ~BoardHasField(FieldUpdates[k])

\* C15: when the value of a promoted field is empty or absent, or the board has
\* no field of that name, no update is issued for it and the record is still
\* imported, whatever other fields the board holds. (Stated for the records
\* all of whose promoted fields are in that case.)
C15_SkipsUnmatched ==
    (ImportEnded /\ ItemCreated /\ \A k \in 1..Len(FieldUpdates) : NothingToUpdate(k)) =>
        /\ CallsOf("updateProjectV2ItemFieldValue") = {}
        /\ import_result = Return(item_id)

\* The update calls of the history that target the field with this id.
UpdatesOf(field_id) ==
    {i \in CallsOf("updateProjectV2ItemFieldValue") : calls[i].arg.fieldId = field_id}

\* The board definition of the k-th promoted field, on a board whose nodes all
\* have a name.
Defined(k) ==
    /\ Truthy(record[FieldUpdates[k]])
    /\ FieldUpdates[k] \in DOMAIN import_field_map(project_fields)
Definition(k) == import_field_map(project_fields)[FieldUpdates[k]]

\* C16: for a promoted field defined as SINGLE_SELECT, once import_item has
\* ended after creating the item: if an option name equals the value
\* case-insensitively, exactly one update was issued for the field, carrying
\* the id of the first such option; if none does, no update was issued for it.
\* (Stated for the boards whose nodes all have a name.)
C16_SingleSelect ==
    (ImportEnded /\ ItemCreated /\ ~HasNamelessNode(project_fields)) =>
        \A k \in 1..Len(FieldUpdates) :
            (Defined(k) /\ Definition(k).dataType = Str("SINGLE_SELECT")) =>
                LET options == Get(Definition(k).options, List(<<>>)).items
                    matching == {j \in 1..Len(options) :
                                    Lower(options[j].name.v) = Lower(record[FieldUpdates[k]].v)}
                    updates == UpdatesOf(Definition(k).id)
                IN IF matching = {} THEN updates = {}
                   ELSE /\ Cardinality(updates) = 1
                        /\ \A i \in updates :
                              /\ calls[i].arg.slot = "singleSelectOptionId"
                              /\ calls[i].arg.value =
                                    options[CHOOSE j \in matching : \A l \in matching : j <= l].id

\* C17: for a promoted field defined as NUMBER, once import_item has ended
\* after creating the item: if the value parses as a number, exactly one
\* update was issued for the field, carrying the number; if not, none was. For
\* a field of any other kind than SINGLE_SELECT and NUMBER exactly one update
\* was issued, as text, carrying the value unchanged. (Stated for the boards
\* whose nodes all have a name.)
C17_NumberAndText ==
    (ImportEnded /\ ItemCreated /\ ~HasNamelessNode(project_fields)) =>
        \A k \in 1..Len(FieldUpdates) :
            (Defined(k) /\ Definition(k).dataType # Str("SINGLE_SELECT")) =>
                LET field_value == record[FieldUpdates[k]]
                    updates == UpdatesOf(Definition(k).id)
                IN IF Definition(k).dataType = Str("NUMBER")
                      THEN IF ParsesAsFloat(field_value.v)
                              THEN /\ Cardinality(updates) = 1
                                   /\ \A i \in updates :
                                         /\ calls[i].arg.slot = "number"
                                         /\ calls[i].arg.value = PyFloat(FloatOf(field_value.v))
                              ELSE updates = {}
                      ELSE /\ Cardinality(updates) = 1
                           /\ \A i \in updates :
                                 /\ calls[i].arg.slot = "text"
                                 /\ calls[i].arg.value = field_value

\* C18: import_item raises only when the creation or attach step fails: once
\* the item has been created or attached, nothing makes import_item raise.
C18_OnlyCreationAborts == import_pc = "raised" => ~ItemCreated

----------------------------------------------------------------------------
(* Properties of the importer's main loop *)

RunEnded == run_pc = "end"
EventsOf(e) == SelectSeq(run_log, LAMBDA ev : ev.e = e)
Happened(e, i) == \E k \in 1..Len(run_log) : run_log[k] = RunEvent(e, i)

\* C19: in a run over n >= 1 records with batch size b >= 1 and continue_on_error
\* set, whatever records succeed or fail, a batch pause is made after record i
\* exactly when i is a multiple of b and i < n, so (n - 1) \div b pauses in all.
C19_PauseEveryBatch ==
    (RunEnded /\ continue_on_error /\ batch_size >= 1 /\ Len(run_items) >= 1) =>
        /\ \A i \in 1..Len(run_items) :
              Happened("pause", i) <=> (i % batch_size = 0 /\ i < Len(run_items))
        /\ Len(EventsOf("pause")) = (Len(run_items) - 1) \div batch_size

\* C20: with continue_on_error set, every record is handed to import_item
\* once, in the order of the input, whatever records fail; the run ends with
\* success_count equal to the number of records whose import_item returned,
\* at most the total, and the total is the number of records read.
C20_EveryRecordOnce ==
    /\ run_pc = "importing" => record = run_items[run_i]
    /\ success_count = Len(EventsOf("imported"))
    /\ (RunEnded /\ continue_on_error) =>
          /\ EventsOf("attempt") = [i \in 1..Len(run_items) |-> RunEvent("attempt", i)]
          /\ report.success = Len(EventsOf("imported"))
          /\ report.success <= report.total
          /\ report.total = Len(run_items)

\* A run of three records ends after the first and the third failed.
C20_Witness ==
    /\ RunEnded
    /\ continue_on_error
    /\ Len(run_items) = 3
    /\ Happened("failed", 1) /\ Happened("imported", 2) /\ Happened("failed", 3)
    /\ ~Happened("imported", 1)
    /\ report = [success |-> 1, total |-> 3]

ImportFailed(i) == Happened("failed", i) /\ ~Happened("imported", i)
LaterEvents(i) == {k \in 1..Len(run_log) : run_log[k].i > i}

\* C21: with continue_on_error unset, once the import of a record has failed
\* nothing is done for any later record (no call of import_item, hence no
\* query or mutation, and no pause); the records before it were imported and
\* success_count is their number.
C21_StopsAtFirstFailure ==
    ~continue_on_error =>
        \A i \in 1..Len(run_items) :
            ImportFailed(i) =>
                /\ run_i = i
                /\ LaterEvents(i) = {}
                /\ run_pc \in {"broken", "end"}
                /\ import_pc = "idle" /\ calls = <<>>
                /\ \A j \in 1..(i - 1) : Happened("imported", j)
                /\ success_count = i - 1
                /\ RunEnded => report.success = i - 1

\* A run of three records ends after the second failed.
C21_Witness ==
    /\ RunEnded
    /\ ~continue_on_error
    /\ Len(run_items) = 3
    /\ batch_size = 1
    /\ ImportFailed(2)
    /\ Happened("pause", 1)
    /\ report = [success |-> 1, total |-> 3]

\* The creation-or-attach mutations and the update mutations of the history of
\* the record in hand.
CreationCalls == CallsOf("addProjectV2DraftIssue") \cup CallsOf("addProjectV2ItemById")
UpdateCalls == CallsOf("updateProjectV2ItemFieldValue")

\* The ids of the board's definitions of the promoted fields, in the order of
\* FieldUpdates; None for a field the board does not define.
PromotedIds ==
    LET fm == import_field_map(project_fields)
    IN [k \in 1..Len(FieldUpdates) |->
            IF FieldUpdates[k] \in DOMAIN fm THEN fm[FieldUpdates[k]].id ELSE PyNone]

\* Every update follows a creation-or-attach mutation that returned and
\* targets the item id it returned; the updates are in the order status,
\* priority, estimate, size, at most one for a field.
UpdatesFollowCreation ==
    UpdateCalls # {} =>
        LET ids == PromotedIds
            field_of(u) == {k \in 1..Len(FieldUpdates) : ids[k] = calls[u].arg.fieldId}
        IN /\ \A u \in UpdateCalls :
                 \E c \in CreationCalls :
                     /\ c < u
                     /\ calls[c].result.kind = "return"
                     /\ calls[u].arg.itemId = calls[c].result.value
           /\ \A u \in UpdateCalls : field_of(u) # {}
           /\ \A u, v \in UpdateCalls :
                 u < v => \E k \in field_of(u), l \in field_of(v) : k < l

\* A step of the run keeps the records apart: a call is added to the history
\* only for the record in hand, one call at a time, and the next record is
\* taken only when import_item has been left, every call of it having ended.
OneRecordAtATime ==
    /\ (calls' # calls /\ calls' # <<>>) =>
          /\ run_pc = "importing" /\ run_i' = run_i
          /\ record = run_items[run_i] /\ record' = record
          /\ \E c \in {calls'[Len(calls')]} :
                /\ calls' = Append(calls, c)
                /\ c.result.kind \in {"return", "raise"}
    /\ run_i' # run_i => (import_pc = "idle" /\ calls = <<>> /\ run_i' = run_i + 1)

\* C31, as claimed: for every record handed to import_item exactly one
\* creation-or-attach mutation is issued; it has ended before any update of
\* the record, the updates are at most one for a promoted field, in the order
\* status, priority, estimate, size, and target the item id the creation
\* returned.
C31_AsClaimed ==
    (run_pc = "importing" /\ ImportEnded) =>
        /\ Cardinality(CreationCalls) = 1
        /\ UpdatesFollowCreation

\* The state part of C31, amended: at most one creation-or-attach mutation is
\* issued for a record, and exactly one unless the lookup of the issue or pull
\* request raised, after which import_item issues no mutation at all.
C31_RecordCalls ==
    run_pc = "importing" =>
        /\ Cardinality(CreationCalls) <= 1
        /\ (ImportEnded /\ CreationCalls = {}) =>
              /\ import_pc = "raised"
              /\ calls # <<>> /\ calls[Len(calls)].op = "repository"
              /\ UpdateCalls = {}
        /\ UpdatesFollowCreation

\* C31, amended: the calls of a record are as C31_RecordCalls says, and all
\* calls of one record have ended before any call of the next record.
C31_OneRecordAtATime == []C31_RecordCalls /\ [][OneRecordAtATime]_vars

\* The second record of a run has been imported with four updates, after the
\* first failed in its lookup without any mutation.
C31_Witness ==
    /\ run_pc = "importing" /\ run_i = 2 /\ import_pc = "done"
    /\ Happened("failed", 1)
    /\ Cardinality(CreationCalls) = 1
    /\ Cardinality(UpdateCalls) = 4
    /\ run_items[1].repository = Str("o/r")

----------------------------------------------------------------------------
(* Properties of parse_csv_row *)

BlankCell(cell) == cell \in {Absent, PyNone} \/ Strip(cell.v) = ""

\* C26: the record parse_csv_row yields has content_type "draft" when the
\* row's content_type is absent or blank (empty or only whitespace), and the
\* row's own value otherwise.
C26_ContentTypeDefault ==
    csv_item.kind = "return" =>
        csv_item.value.content_type =
            IF BlankCell(csv_row.content_type) THEN Str("draft")
            ELSE csv_row.content_type

----------------------------------------------------------------------------
(* Properties of main, from the command line to its loop *)

\* The command line or the `github` section of the configuration holds a
\* value under this name.
InConfig(key) ==
    /\ config # PyNone
    /\ config.github \notin {Absent, PyNone}
    /\ config_github_get(config, key).kind = "return"
    /\ Truthy(config_github_get(config, key).value)
TokenGiven == Truthy(args.token) \/ InConfig("token")
ProjectGiven == Truthy(args.project) \/ InConfig("default_project_id")
ExitedNonZero == start_pc = "exit" /\ start_exit # PyNone /\ start_exit.v # 0

\* C22: in either tool, when the token or the project id is given neither on
\* the command line nor in the configuration, the process exits with a
\* non-zero status and no query is ever sent.
C22_MissingCredentialExits ==
    (~TokenGiven \/ ~ProjectGiven) =>
        /\ start_calls = <<>>
        /\ start_pc \in {"start", "exit"}
        /\ start_pc = "exit" => ExitedNonZero

\* The exporter has exited for want of a project id, the token being given.
C22_Witness ==
    /\ tool = "exporter"
    /\ TokenGiven /\ ~ProjectGiven
    /\ ExitedNonZero
    /\ start_calls = <<>>

NoProjectFound ==
    \E k \in 1..Len(start_calls) :
        /\ start_calls[k].op = "project"
        /\ start_calls[k].answer.kind = "return"
        /\ start_calls[k].answer.value # PyNone
        /\ start_calls[k].answer.value.node \in {Absent, PyNone, EmptyDict}
FileRead == csv_file \notin {Unbound, Absent}
ColumnsMissing == FileRead /\ csv_file.header /\ required_columns \ ColumnSet(csv_file) # {}
NothingImported ==
    /\ run_pc = "idle" /\ run_log = <<>> /\ success_count = 0
    /\ import_pc = "idle" /\ calls = <<>>

\* C23: when the project lookup returns no project, or the CSV file lacks a
\* required column (title, content_type), the run ends with a non-zero exit
\* status and the loop over the records is never entered, so no creation,
\* attach or update mutation is issued.
C23_FatalBeforeImport ==
    (NoProjectFound \/ ColumnsMissing) => (ExitedNonZero /\ NothingImported)

\* A file without the content_type column has ended the run.
C23_Witness ==
    /\ ColumnsMissing
    /\ csv_file.columns = <<"title">>
    /\ Len(csv_file.rows) = 2
    /\ ExitedNonZero
    /\ Len(start_calls) = 1

\* The rows of the file read whose title is not blank.
TitleBlank(r) == r.title \in {Absent, PyNone} \/ Strip(r.title.v) = ""
TitledRows == SelectSeq(csv_file.rows, LAMBDA r : ~TitleBlank(r))

\* C24: when a file with the required columns is read, rows whose title is
\* empty or blank are skipped and do not fail the run; the records to import
\* are the rows with a title, in the order of the file, and their number is
\* the total.
C24_BlankTitlesSkipped ==
    (FileRead /\ config # PyNone /\ csv_file.header /\ ~ColumnsMissing) =>
        /\ ~ExitedNonZero
        /\ Len(run_items) = Len(TitledRows)
        /\ \A k \in 1..Len(run_items) : run_items[k].title = TitledRows[k].title

----------------------------------------------------------------------------
(* Properties of export_to_csv *)

\* C25: the file export_to_csv writes has as columns the fixed names followed
\* by the sorted union of the custom-field names of all the tasks, no column
\* name twice, and every row has a value for every column.
C25_SheetColumns ==
    (sheet # Unbound /\ sheet # Absent) =>
        /\ sheet.header = fieldnames \o sorted(all_custom_fields(sheet_tasks))
        /\ \A c, d \in 1..Len(sheet.header) : sheet.header[c] = sheet.header[d] => c = d
        /\ Len(sheet.rows) = Len(sheet_tasks)
        /\ \A i \in 1..Len(sheet.rows) : Len(sheet.rows[i]) = Len(sheet.header)

\* What csv.DictWriter writes for a value: nothing for None.
CsvText(v) == IF v = PyNone THEN Str("") ELSE v

\* The fixed columns that hold an attribute of the task as it is.
AttributeColumns ==
    {"id", "title", "content_type", "description", "status", "priority", "size", "estimate",
     "milestone", "repository", "number", "url", "created_at", "updated_at", "closed_at",
     "state"}

\* C32: in the file export_to_csv writes, the value of every fixed column that
\* holds an attribute is, in the row of every task, that task's own attribute,
\* whatever custom fields this or another task has (fields named like a fixed
\* column and a status promoted from a synonym included).
C32_FixedColumnsKeepAttributes ==
    (sheet # Unbound /\ sheet # Absent) =>
        \A i \in 1..Len(sheet_tasks) :
            \A c \in 1..Len(fieldnames) :
                fieldnames[c] \in AttributeColumns =>
                    CsvText(sheet.rows[i][c]) =
                        CsvText(sheet_cell(sheet_tasks[i], {}, fieldnames[c]))

====
